---- MODULE Spec2Model ----
(***************************************************************************)
(* Model of the TPL feed scraper (src/src/index.ts): the rss_items table,  *)
(* the reconciliation transaction upsertRSSItems, the paginator            *)
(* fetchAllRSSItems, the pruner, the clear command and the run             *)
(* orchestrator TPLScraper.run with its notification decision.             *)
(***************************************************************************)
EXTENDS Integers, Sequences, FiniteSets, TLC

\* ------------------------------------------------------------------ bounds
\* longest item list a feed returns in one pass
MaxItems == 2
\* last value of the clock: every reconciliation pass / run starts a new tick
MaxTime == 2
\* longest item list a feed publishes in the runs of the orchestrator
MaxPageItems == 1

\* ------------------------------------------------------------------ data
\* item.title?.[0] / item.link?.[0] of an item that lacks the element
Undefined == "undefined"

\* ------------------------------------------------------------------ getEventDates
\* longest attribute list of an item's record
MaxAttrs == 4

\* an <attr name="..."> element as the XML parser hands it over: attr.$.name, attr._
Attr(name, text) == [dollar |-> TRUE, name |-> name, text |-> text]

\* an <attr> element without XML attributes: attr.$ is undefined
BareAttr(text) == [dollar |-> FALSE, name |-> Undefined, text |-> text]

\* date strings new Date() parses
IsoDates == { "2025-03-10", "2025-03-20" }

\* time strings that complete an ISO date-time
ClockTimes == { "09:00", "14:00" }

\* what a record's attributes can be: well-formed and malformed dates and start
\* times, a start time without text, end times, an unrelated attribute and
\* an element without a name
AttrPool ==
  { Attr("p_event_date", "2025-03-10"), Attr("p_event_date", "2025-03-20"),
    Attr("p_event_date", "TBA"),
    Attr("p_event_time", "09:00"), Attr("p_event_time", "14:00"),
    Attr("p_event_time", "noon"), Attr("p_event_time", Undefined),
    Attr("p_event_endtime", "16:00"), Attr("p_event_endtime", "17:00"),
    Attr("p_location", "Parkdale"),
    BareAttr("Parkdale") }

\* the time value of an Invalid Date
NaN == 0 - 1

DayOf(dateStr) == IF dateStr = "2025-03-10" THEN 10 ELSE 20

MinutesOf(timeStr) == IF timeStr = "09:00" THEN 540 ELSE 840

\* let fullDateTimeStr = dateStr, or `${dateStr}T${timeStr}:00`
DateOnly(dateStr) == [date |-> dateStr, time |-> Undefined, suffix |-> FALSE]

DateTime(dateStr, timeStr) == [date |-> dateStr, time |-> timeStr, suffix |-> TRUE]

\* new Date(fullDateTimeStr).getTime(), in minutes
NewDate(full) ==
  IF full.date \in IsoDates /\ ~full.suffix THEN DayOf(full.date) * 1440
  ELSE IF full.date \in IsoDates /\ full.time \in ClockTimes
       THEN DayOf(full.date) * 1440 + MinutesOf(full.time)
       ELSE NaN

\* the texts of the attributes called name, in document order
TextsOf(attrs, name) ==
  LET named == SelectSeq(attrs, LAMBDA attr : attr.name = name)
  IN [k \in 1..Len(named) |-> named[k].text]

\* list[0], whatever the index
FirstOnly(list, index) == list[1]

\* list[index] || list[0]
OrFirst(list, index) ==
  IF index <= Len(list) /\ list[index] \notin {Undefined, ""} THEN list[index] ELSE list[1]

\* the Date pushed for the index-th p_event_date, with its endTime property
ParsedDate(eventDates, eventStartTimes, eventEndTimes, index) ==
  [time |-> NewDate(IF Len(eventStartTimes) > 0
                    THEN DateTime(eventDates[index], OrFirst(eventStartTimes, index))
                    ELSE DateOnly(eventDates[index])),
   endTime |-> IF Len(eventEndTimes) > 0 THEN OrFirst(eventEndTimes, index)
               ELSE Undefined]

\* if (!isNaN(parsedDate.getTime())) dates.push(parsedDate)
ValidDates(dates) == SelectSeq(dates, LAMBDA parsedDate : parsedDate.time # NaN)

RECURSIVE InsertSorted(_, _)
\* d placed after the elements that do not come later than it
InsertSorted(sorted, d) ==
  IF sorted = << >> \/ sorted[Len(sorted)].time <= d.time
  THEN Append(sorted, d)
  ELSE Append(InsertSorted(SubSeq(sorted, 1, Len(sorted) - 1), d), sorted[Len(sorted)])

\* a return without the sort
Unsorted(dates) == dates

RECURSIVE SortByTime(_)
\* dates.sort((a, b) => a.getTime() - b.getTime())
SortByTime(dates) ==
  IF dates = << >> THEN << >>
  ELSE InsertSorted(SortByTime(SubSeq(dates, 1, Len(dates) - 1)), dates[Len(dates)])

\* attr.$.name of an element without attributes raises inside the outer try
AttrThrows(attrs) == \E k \in 1..Len(attrs) : ~attrs[k].dollar

\* item.record?.[0]?.attributes?.[0]?.attr of an item, or the empty list
AttrsOf(item) == item.record

\* getEventDates(item): the occurrences of the item, earliest first
getEventDates(item) ==
  LET attrs == AttrsOf(item)
      eventDates == TextsOf(attrs, "p_event_date")
      eventStartTimes == TextsOf(attrs, "p_event_time")
      eventEndTimes == TextsOf(attrs, "p_event_endtime")
      dates == [index \in 1..Len(eventDates) |->
                  ParsedDate(eventDates, eventStartTimes, eventEndTimes, index)]
  IN IF attrs = << >> \/ AttrThrows(attrs) THEN << >>
     ELSE SortByTime(ValidDates(dates))

\* catch (error) { console.error(...); return []; }: nothing reaches the caller
Caught(threw) == FALSE

\* the timestamps the driver stores for an array of Date
Timestamps(dates) == [k \in 1..Len(dates) |-> dates[k].time]

\* the records the items of the feeds carry
NoRecord == << >>

RecordA == << Attr("p_event_date", "2025-03-20"), Attr("p_event_time", "09:00") >>

RecordB == << Attr("p_event_date", "2025-03-10") >>

\* ------------------------------------------------------------------ items
\* an item of a feed page; the re-published variant of an event (link l2)
\* carries another body and another record, Chess Night carries no record
RSSItem(t, l, d) ==
  [title |-> t, link |-> l, description |-> d,
   content |-> IF l = "l2" THEN "c2" ELSE "c1",
   record |-> IF l = "l2" THEN RecordB ELSE IF t = "Chess Night" THEN NoRecord ELSE RecordA]

\* the items a feed page can hold: three events, a re-published event with
\* changed link and body, an item without a title and an item without a link
ItemPool ==
  { RSSItem("Story Time", "l1", "d1"), RSSItem("Story Time", "l2", "d2"),
    RSSItem("Book Club", "l1", "d1"), RSSItem("Chess Night", "l1", "d1"),
    RSSItem(Undefined, "l1", "d1"), RSSItem("Book Club", Undefined, "d1") }

SeqsUpTo(S, n) == UNION { [1..k -> S] : k \in 0..n }

ItemLists == SeqsUpTo(ItemPool, MaxItems)

Range(s) == { s[k] : k \in 1..Len(s) }

\* config.feeds
FeedConfigs ==
  << [name |-> "Parkdale Branch", enabled |-> TRUE],
     [name |-> "High Park Branch", enabled |-> TRUE],
     [name |-> "Annette Street", enabled |-> FALSE] >>

FeedNames == { FeedConfigs[k].name : k \in 1..Len(FeedConfigs) }

\* every configured feed, whatever its enabled flag
allFeeds == FeedConfigs

\* config.feeds.filter(feed => feed.enabled), in configuration order
enabledFeeds == SelectSeq(FeedConfigs, LAMBDA feed : feed.enabled)

EnabledNames == { enabledFeeds[k].name : k \in 1..Len(enabledFeeds) }

\* config.database.prune_inactive_after_days; the clock ticks in days
pruneDays == 1

\* ------------------------------------------------------------------ state
VARIABLES
  rows,      \* the committed rss_items table: a set of rows, unique per (title, feed_name)
  now,       \* the clock NOW() reads
  tx,        \* the working copy of the table inside the open transaction
  u,         \* the frame of upsertRSSItems: position, arguments and locals
  before,    \* the table as it was when upsertRSSItems was called
  h,         \* the direct caller of upsertRSSItems in the reconciler specification
  orc,       \* the frame of run(): position and locals
  mails,     \* the sendMail calls of the current run, in order, each with its outcome
  upstream,  \* what each enabled feed currently publishes
  g,         \* what is remembered of the previous run, and of this run's collaborator failures
  pg,        \* the frame of fetchAllRSSItems: position, offset, the items and the fetches so far
  ex,        \* the frame of getEventDates: the item's attributes and the result
  fe,        \* the frame of the frontend handler: the request and the response
  ctor,      \* the frame of the TPLScraper constructor: process.env, config.json and the outcome
  boot       \* the initializeDatabase() call the constructor starts and does not await

\* the frames of the operations that are no step of a run
sideVars == << ex, fe, ctor, boot >>

vars == << rows, now, tx, u, before, h, orc, mails, upstream, g, pg, ex, fe, ctor, boot >>

\* everything outside upsertRSSItems and the table
callerVars == << h, orc, mails, upstream, g, pg, sideVars >>

\* getEventDates not called
ExNone == [pc |-> "none", attrs |-> << >>, dates |-> << >>, raised |-> FALSE]

\* no request received
FeNone == [pc |-> "none"]

\* no scraper constructed
CtorNone == [pc |-> "none"]

\* the constructor's initializeDatabase() left out of the picture
BootNone == "none"

SideNone == ex = ExNone /\ fe = FeNone /\ ctor = CtorNone /\ boot = BootNone

\* ------------------------------------------------------------------ storage
\* the skip test with the link forgotten: if (!title) continue
HasTitleOnly(item) == item.title # Undefined

\* the skip test with the title forgotten: if (!link) continue
HasLinkOnly(item) == item.link # Undefined

HasTitleAndLink(item) == item.title # Undefined /\ item.link # Undefined

\* the baseline query without its feed: SELECT title FROM rss_items WHERE is_active = TRUE
ActiveTitlesAnyFeed(rs, feedName) == { r.title : r \in { x \in rs : x.is_active } }

\* SELECT title FROM rss_items WHERE is_active = TRUE AND feed_name = $1
ActiveTitles(rs, feedName) ==
  { r.title : r \in { x \in rs : x.is_active /\ x.feed_name = feedName } }

\* the legacy identity key: the title alone, as under UNIQUE(title)
MatchesTitleOnly(r, title, feedName) == r.title = title

Matches(r, title, feedName) == r.title = title /\ r.feed_name = feedName

\* an upsert that also assigns first_seen in DO UPDATE SET
UpsertRowFirstSeen(rs, item, feedName, t) ==
  IF \E r \in rs : Matches(r, item.title, feedName)
  THEN { IF Matches(r, item.title, feedName)
         THEN [r EXCEPT !.link = item.link, !.description = item.description,
                        !.content_encoded = item.content, !.record_data = item.record,
                        !.event_dates = Timestamps(getEventDates(item)),
                        !.first_seen = t, !.last_seen = t, !.is_active = TRUE]
         ELSE r : r \in rs }
  ELSE rs \cup { [title |-> item.title, feed_name |-> feedName, link |-> item.link,
                  description |-> item.description, content_encoded |-> item.content,
                  record_data |-> item.record,
                  event_dates |-> Timestamps(getEventDates(item)), first_seen |-> t,
                  last_seen |-> t, is_active |-> TRUE] }

\* an upsert that replaces the conflicting row, first_seen included
UpsertRowReplacing(rs, item, feedName, t) ==
  { x \in rs : ~Matches(x, item.title, feedName) }
    \cup { [title |-> item.title, feed_name |-> feedName, link |-> item.link,
            description |-> item.description, content_encoded |-> item.content,
                  record_data |-> item.record,
                  event_dates |-> Timestamps(getEventDates(item)), first_seen |-> t,
            last_seen |-> t, is_active |-> TRUE] }

\* an upsert whose conflict target leaves inactive rows out: a title that comes
\* back gets a second row
UpsertRowBesideInactive(rs, item, feedName, t) ==
  IF \E r \in rs : Matches(r, item.title, feedName) /\ r.is_active
  THEN { IF Matches(r, item.title, feedName)
         THEN [r EXCEPT !.link = item.link, !.description = item.description,
                        !.content_encoded = item.content, !.record_data = item.record,
                        !.event_dates = Timestamps(getEventDates(item)),
                        !.last_seen = t, !.is_active = TRUE]
         ELSE r : r \in rs }
  ELSE rs \cup { [title |-> item.title, feed_name |-> feedName, link |-> item.link,
                  description |-> item.description, content_encoded |-> item.content,
                  record_data |-> item.record,
                  event_dates |-> Timestamps(getEventDates(item)), first_seen |-> t,
                  last_seen |-> t, is_active |-> TRUE] }

\* an upsert whose DO UPDATE SET assigns last_seen and is_active only
UpsertRowKeepsData(rs, item, feedName, t) ==
  IF \E r \in rs : Matches(r, item.title, feedName)
  THEN { IF Matches(r, item.title, feedName)
         THEN [r EXCEPT !.last_seen = t, !.is_active = TRUE]
         ELSE r : r \in rs }
  ELSE rs \cup { [title |-> item.title, feed_name |-> feedName, link |-> item.link,
                  description |-> item.description, content_encoded |-> item.content,
                  record_data |-> item.record,
                  event_dates |-> Timestamps(getEventDates(item)), first_seen |-> t,
                  last_seen |-> t, is_active |-> TRUE] }

\* INSERT ... VALUES (..., NOW(), TRUE) ON CONFLICT (title, feed_name) DO UPDATE SET ...
UpsertRow(rs, item, feedName, t) ==
  IF \E r \in rs : Matches(r, item.title, feedName)
  THEN { IF Matches(r, item.title, feedName)
         THEN [r EXCEPT !.link = item.link, !.description = item.description,
                        !.content_encoded = item.content, !.record_data = item.record,
                        !.event_dates = Timestamps(getEventDates(item)),
                        !.last_seen = t, !.is_active = TRUE]
         ELSE r : r \in rs }
  ELSE rs \cup { [title |-> item.title, feed_name |-> feedName, link |-> item.link,
                  description |-> item.description, content_encoded |-> item.content,
                  record_data |-> item.record,
                  event_dates |-> Timestamps(getEventDates(item)), first_seen |-> t,
                  last_seen |-> t, is_active |-> TRUE] }

\* an UPDATE that matches no row
MarkInactiveNothing(rs, title, feedName) == rs

\* an UPDATE that also refreshes last_seen
MarkInactiveSeenNow(rs, title, feedName) ==
  { IF Matches(r, title, feedName) THEN [r EXCEPT !.is_active = FALSE, !.last_seen = now] ELSE r
    : r \in rs }

\* UPDATE rss_items SET is_active = FALSE WHERE title = $1 AND feed_name = $2
MarkInactive(rs, title, feedName) ==
  { IF Matches(r, title, feedName) THEN [r EXCEPT !.is_active = FALSE] ELSE r : r \in rs }

\* statements that were never wrapped in a transaction: what ran stays
RollbackNothing(committed, working) == working

\* ROLLBACK: the table the failed transaction leaves behind
Rollback(committed, working) == committed

\* COMMIT
Commit(committed, working) == working

\* ------------------------------------------------------------------ upsertRSSItems
UNone ==
  [pc |-> "none", feedName |-> Undefined, items |-> << >>, i |-> 0,
   currentActiveTitles |-> {}, newItemTitles |-> << >>, currentItemTitles |-> {},
   removedItemTitles |-> << >>, client |-> FALSE]

HNone == [pc |-> "idle", again |-> FALSE, prevCommitted |-> FALSE]

\* the call: arguments bound, nothing done yet
CallUpsert(items, feedName) ==
  /\ u' = [UNone EXCEPT !.pc = "connect", !.items = items, !.feedName = feedName]
  /\ before' = rows
  /\ tx' = {}

\* const client = await this.pool.connect()
PoolConnect ==
  /\ u.pc = "connect"
  /\ u' = [u EXCEPT !.pc = "begin", !.client = TRUE]
  /\ UNCHANGED << rows, now, tx, before, callerVars >>

\* pool.connect() rejects: thrown before the try block, no transaction was opened
PoolConnectFails ==
  /\ u.pc = "connect"
  /\ u' = [u EXCEPT !.pc = "threw"]
  /\ UNCHANGED << rows, now, tx, before, callerVars >>

\* BEGIN
Begin ==
  /\ u.pc = "begin"
  /\ tx' = rows
  /\ u' = [u EXCEPT !.pc = "select"]
  /\ UNCHANGED << rows, now, before, callerVars >>

\* the baseline query; an empty item list goes straight to the removal loop
SelectActive ==
  /\ u.pc = "select"
  /\ u' = [u EXCEPT !.currentActiveTitles = ActiveTitles(tx, u.feedName),
                    !.pc = "loop", !.i = 1]
  /\ UNCHANGED << rows, now, tx, before, callerVars >>

\* one iteration of for (const item of items): skip, or classify and upsert
ProcessItem ==
  /\ u.pc = "loop"
  /\ u.i <= Len(u.items)
  /\ LET item == u.items[u.i] IN
       \/ /\ ~HasTitleAndLink(item)
          /\ u' = [u EXCEPT !.i = u.i + 1]
          /\ tx' = tx
       \/ /\ HasTitleAndLink(item)
          /\ u' = [u EXCEPT !.i = u.i + 1,
                            !.currentItemTitles = @ \cup {item.title},
                            !.newItemTitles =
                               IF item.title \in u.currentActiveTitles
                               THEN @ ELSE Append(@, item.title)]
          /\ tx' = UpsertRow(tx, item, u.feedName, now)
  /\ UNCHANGED << rows, now, before, callerVars >>

\* a removal loop that flags every baseline title, present in the pass or not
ToDeactivateAll == u.currentActiveTitles \ Range(u.removedItemTitles)

\* baseline titles the removal loop still has to flag
ToDeactivate ==
  (u.currentActiveTitles \ u.currentItemTitles) \ Range(u.removedItemTitles)

\* one iteration of for (const activeTitle of currentActiveTitles) that flags a title
DeactivateTitle ==
  /\ u.pc = "loop"
  /\ u.i > Len(u.items)
  /\ \E activeTitle \in ToDeactivate :
       /\ u' = [u EXCEPT !.removedItemTitles = Append(@, activeTitle)]
       /\ tx' = MarkInactive(tx, activeTitle, u.feedName)
  /\ UNCHANGED << rows, now, before, callerVars >>

\* COMMIT and return { newItems, removedItems }; finally client.release()
CommitTx ==
  /\ u.pc = "loop"
  /\ u.i > Len(u.items)
  /\ ToDeactivate = {}
  /\ rows' = Commit(rows, tx)
  /\ u' = [u EXCEPT !.pc = "returned", !.client = FALSE]
  /\ UNCHANGED << now, tx, before, callerVars >>

\* a statement of the transaction fails: catch, ROLLBACK (which may fail as
\* well), the error is thrown on; finally client.release()
StatementFails ==
  /\ u.pc \in {"begin", "select", "loop"}
  /\ rows' = Rollback(rows, tx)
  /\ u' = [u EXCEPT !.pc = "threw", !.client = FALSE]
  /\ UNCHANGED << now, tx, before, callerVars >>

upsertRSSItems ==
  \/ PoolConnect \/ PoolConnectFails \/ Begin \/ SelectActive
  \/ ProcessItem \/ DeactivateTitle \/ CommitTx \/ StatementFails

\* ------------------------------------------------------------------ fetchAllRSSItems
\* const pageSize = 10
pageSize == 10

\* the offset of the safety check: if (pageOffset > 1000) break
safetyOffset == 1000

\* the items of the page a feed serves at an offset: the item at position k of it
PageItems(offset, n) == [k \in 1..n |-> << offset, k >>]

PNone ==
  [pc |-> "none", pageOffset |-> 0, allItems |-> << >>, fetches |-> << >>, served |-> << >>]

\* a loop that goes on after a short page
EndOfResultsNever(n) == FALSE

\* if (pageItems.length < pageSize) break
EndOfResults(n) == n < pageSize

\* a safety check one page late
SafetyLimitLate(offset) == offset > safetyOffset + pageSize

\* if (pageOffset > 1000) break
SafetyLimit(offset) == offset > safetyOffset

\* a catch block that rethrows: the caller gets the exception and no items
PaginationErrorRethrown(frame) == [frame EXCEPT !.pc = "threw", !.allItems = << >>]

\* catch (error): 'Return what we have so far'
PaginationError(frame) == [frame EXCEPT !.pc = "returned"]

\* fetchAllRSSItems(baseUrl) is called
CallFetchAll ==
  /\ pg.pc = "none"
  /\ pg' = [PNone EXCEPT !.pc = "fetch"]
  /\ UNCHANGED << rows, now, tx, u, before, h, orc, mails, upstream, g, sideVars >>

\* what every iteration records: the offset of the url it fetched, and what came back
Fetched(outcome, n) ==
  [pg EXCEPT !.fetches = Append(@, pg.pageOffset),
             !.served = Append(@, [offset |-> pg.pageOffset, outcome |-> outcome, count |-> n])]

\* one iteration of while (true) in which the page is fetched and parsed and
\* holds an item array of n items
FetchPage ==
  /\ pg.pc = "fetch"
  /\ \E n \in 0..pageSize :
       LET f == Fetched("items", n) IN
         IF n = 0
         THEN pg' = [f EXCEPT !.pc = "returned"]
         ELSE LET pushed == [f EXCEPT !.allItems = @ \o PageItems(pg.pageOffset, n)] IN
                IF EndOfResults(n)
                THEN pg' = [pushed EXCEPT !.pc = "returned"]
                ELSE IF SafetyLimit(pg.pageOffset + pageSize)
                     THEN pg' = [pushed EXCEPT !.pageOffset = @ + pageSize, !.pc = "returned"]
                     ELSE pg' = [pushed EXCEPT !.pageOffset = @ + pageSize]
  /\ UNCHANGED << rows, now, tx, u, before, h, orc, mails, upstream, g, sideVars >>

\* if (!rssContent) break: the response has an empty body
EmptyRSSContent ==
  /\ pg.pc = "fetch"
  /\ pg' = [Fetched("empty", 0) EXCEPT !.pc = "returned"]
  /\ UNCHANGED << rows, now, tx, u, before, h, orc, mails, upstream, g, sideVars >>

\* if (!result.rss || ... || !result.rss.channel[0].item) break
NoItemsInStructure ==
  /\ pg.pc = "fetch"
  /\ pg' = [Fetched("no item element", 0) EXCEPT !.pc = "returned"]
  /\ UNCHANGED << rows, now, tx, u, before, h, orc, mails, upstream, g, sideVars >>

\* fetchRSSFeed(url) throws: a network error, or a status of 400 or above
FetchThrows ==
  /\ pg.pc = "fetch"
  /\ pg' = PaginationError(Fetched("fetch threw", 0))
  /\ UNCHANGED << rows, now, tx, u, before, h, orc, mails, upstream, g, sideVars >>

\* parser.parseStringPromise(rssContent) throws
ParseThrows ==
  /\ pg.pc = "fetch"
  /\ pg' = PaginationError(Fetched("parse threw", 0))
  /\ UNCHANGED << rows, now, tx, u, before, h, orc, mails, upstream, g, sideVars >>

paginate == FetchPage \/ EmptyRSSContent \/ NoItemsInStructure \/ FetchThrows \/ ParseThrows

\* ------------------------------------------------------------------ run()
\* the items the feeds publish between runs
PagePool ==
  { RSSItem("Story Time", "l1", "d1"), RSSItem("Book Club", "l1", "d1"),
    RSSItem(Undefined, "l1", "d1") }

\* the second branch only ever lists Story Time, which the first branch lists too
Published(feedName) ==
  IF feedName = "Parkdale Branch"
  THEN SeqsUpTo(PagePool, MaxPageItems)
  ELSE SeqsUpTo({RSSItem("Story Time", "l1", "d1")}, MaxPageItems)

UpstreamStates ==
  { [n \in EnabledNames |-> IF n = "Parkdale Branch" THEN a ELSE b] :
      a \in Published("Parkdale Branch"), b \in Published("High Park Branch") }

\* process.env as the error path reads it
Envs ==
  { [GITHUB_ACTIONS |-> Undefined, FLY_APP_NAME |-> Undefined, NODE_ENV |-> Undefined],
    [GITHUB_ACTIONS |-> "true", FLY_APP_NAME |-> Undefined, NODE_ENV |-> Undefined],
    [GITHUB_ACTIONS |-> Undefined, FLY_APP_NAME |-> "tpl-scraper", NODE_ENV |-> Undefined],
    [GITHUB_ACTIONS |-> Undefined, FLY_APP_NAME |-> Undefined, NODE_ENV |-> "production"] }

\* process.env without any of the variables
NoEnv == [GITHUB_ACTIONS |-> Undefined, FLY_APP_NAME |-> Undefined, NODE_ENV |-> Undefined]

getEnvironment(env) ==
  IF env.GITHUB_ACTIONS # Undefined THEN "GitHub Actions"
  ELSE IF env.FLY_APP_NAME # Undefined \/ env.NODE_ENV = "production" THEN "Fly.io"
  ELSE "Local Development"

RNone ==
  [pc |-> "idle", feedIdx |-> 0, currentItems |-> << >>, allNewEvents |-> {},
   allRemovedEvents |-> {}, allCurrentItems |-> << >>, dbItems |-> {}, error |-> Undefined,
   clearDb |-> FALSE, rejected |-> FALSE, exitCode |-> 0,
   env |-> NoEnv, confirm |-> Undefined]

GNone ==
  [hasPrev |-> FALSE, prevDelivered |-> 0, prevClean |-> FALSE, prevEmptyStart |-> FALSE,
   sameAsPrev |-> FALSE, clean |-> TRUE, emptyStart |-> FALSE,
   paginated |-> {}, fetchFailed |-> {}, feedThrew |-> {}]

NoErrorDetails == [message |-> Undefined, timestamp |-> 0, environment |-> Undefined]

EmptyContent == [newSection |-> {}, removedSection |-> {}, listing |-> << >>]

\* the successfully sent mails among s
Delivered(s) == SelectSeq(s, LAMBDA m : m.delivered)

WithFeed(item, feedName) ==
  [title |-> item.title, link |-> item.link, description |-> item.description,
   feedName |-> feedName]

\* the sections of the mail body: the change summary, grouped by the branch that
\* titleToBranchMap gives each title, and the listing of the items
formatContent(items, newEvents, removedEvents) ==
  LET titleOf(item) == IF item.title = Undefined THEN "No Title" ELSE item.title
      positions(title) == { k \in 1..Len(items) : titleOf(items[k]) = title }
      last(title) == CHOOSE k \in positions(title) : \A j \in positions(title) : j <= k
      branchOf(title) ==
        IF positions(title) = {} THEN "Unknown Branch" ELSE items[last(title)].feedName
  IN  [newSection |-> { << branchOf(t), t >> : t \in newEvents },
       removedSection |-> { << branchOf(t), t >> : t \in removedEvents },
       listing |-> items]

\* sendEmail(content): transporter.sendMail is called and resolves (ok) or rejects
sendEmail(content, ok) ==
  mails' = Append(mails, [kind |-> "content", delivered |-> ok, content |-> content,
                          errorDetails |-> NoErrorDetails])

\* a send whose outcome is not awaited inside the try block: the catch runs anyway
AfterSendAlwaysCatch(ok) == "catch"

\* a send whose rejection is swallowed
AfterSendSwallow(ok) == "finally"

\* where run() continues after awaiting sendEmail in the try block
AfterSend(ok) == IF ok THEN "finally" ELSE "catch"

\* the scheduler starts a run: a new process, a new tick of the clock; the feeds
\* publish what they did at the previous run, or something else
StartRun ==
  /\ orc.pc = "idle"
  /\ u.pc = "none"
  /\ now < MaxTime
  /\ now' = now + 1
  /\ orc' = [RNone EXCEPT !.pc = "init"]
  /\ mails' = << >>
  /\ upstream' \in UpstreamStates
  /\ g' = [GNone EXCEPT !.hasPrev = now > 0, !.prevDelivered = Len(Delivered(mails)),
                        !.prevClean = g.clean, !.prevEmptyStart = g.emptyStart,
                        !.sameAsPrev = (now > 0 /\ upstream' = upstream),
                        !.emptyStart = (rows = {})]
  /\ UNCHANGED << rows, tx, u, before, h, pg, sideVars >>

\* the arguments that ask for the table to be cleared
ClearArgs == {"--clear-db", "--clear"}

\* const clearDb = args.includes('--clear-db') || args.includes('--clear')
clearDb(args) == "--clear-db" \in args \/ "--clear" \in args

\* an operator starts a run with a clear argument (npm run clear-db)
StartClearRun ==
  /\ orc.pc = "idle"
  /\ u.pc = "none"
  /\ now < MaxTime
  /\ now' = now + 1
  /\ \E args \in SUBSET ClearArgs :
       /\ clearDb(args)
       /\ orc' = [RNone EXCEPT !.pc = "init", !.clearDb = clearDb(args)]
  /\ mails' = << >>
  /\ g' = [GNone EXCEPT !.hasPrev = now > 0, !.prevDelivered = Len(Delivered(mails)),
                        !.prevClean = g.clean, !.prevEmptyStart = g.emptyStart,
                        !.emptyStart = (rows = {})]
  /\ UNCHANGED << rows, tx, u, before, h, upstream, pg, sideVars >>

\* await this.initializeDatabase(): idempotent DDL, no row changes
InitializeDatabase ==
  /\ orc.pc = "init"
  /\ orc' = [orc EXCEPT !.pc = IF orc.clearDb THEN "clear" ELSE "prune"]
  /\ UNCHANGED << rows, now, tx, u, before, h, mails, upstream, pg, g, sideVars >>

InitializeDatabaseFails ==
  /\ orc.pc = "init"
  /\ orc' = [orc EXCEPT !.pc = "catch", !.error = "initializeDatabase failed"]
  /\ g' = [g EXCEPT !.clean = FALSE]
  /\ UNCHANGED << rows, now, tx, u, before, h, mails, upstream, pg, sideVars >>

isProductionEnvironment(env) ==
  env.GITHUB_ACTIONS = "true" \/ env.FLY_APP_NAME # Undefined \/ env.NODE_ENV = "production"

\* process.env.CONFIRM_CLEAR_DB
ConfirmValues == {Undefined, "true", "yes"}

\* a confirmation that accepts any value of CONFIRM_CLEAR_DB
confirmWithAnyValue(env, confirm) ==
  IF isProductionEnvironment(env) THEN confirm # Undefined ELSE TRUE

confirmClearDatabase(env, confirm) ==
  IF isProductionEnvironment(env) THEN confirm = "true" ELSE TRUE

\* if (clearDb): clear the table when confirmed, and return without doing anything
\* else; the frame keeps the process.env the confirmation read
ClearDatabase ==
  /\ orc.pc = "clear"
  /\ \E env \in Envs, confirm \in ConfirmValues :
       IF confirmClearDatabase(env, confirm)
       THEN \/ \* DELETE FROM rss_items, ALTER SEQUENCE ... RESTART
               /\ rows' = {}
               /\ orc' = [orc EXCEPT !.pc = "finally", !.env = env, !.confirm = confirm]
               /\ g' = g
            \/ \* pool.connect() or the DELETE fails, or the ALTER SEQUENCE after it
               /\ rows' \in {rows, {}}
               /\ orc' = [orc EXCEPT !.pc = "catch", !.error = "clearDatabase failed",
                                     !.env = env, !.confirm = confirm]
               /\ g' = [g EXCEPT !.clean = FALSE]
       ELSE /\ rows' = rows
            /\ orc' = [orc EXCEPT !.pc = "finally", !.env = env, !.confirm = confirm]
            /\ g' = g
  /\ UNCHANGED << now, tx, u, before, h, mails, upstream, pg, sideVars >>

\* a DELETE without the retention window: DELETE FROM rss_items WHERE is_active = FALSE
PrunedAllInactive(rs, t) == { x \in rs : x.is_active }

\* DELETE FROM rss_items WHERE is_active = FALSE AND last_seen < NOW() - INTERVAL 'pruneDays days'
Pruned(rs, t) == { x \in rs : ~(~x.is_active /\ x.last_seen < t - pruneDays) }

pruneOldData ==
  /\ orc.pc = "prune"
  /\ \/ /\ rows' = Pruned(rows, now)
        /\ g' = g
     \/ \* the DELETE fails: logged by the catch block of pruneOldData
        /\ rows' = rows
        /\ g' = [g EXCEPT !.clean = FALSE]
  /\ orc' = [orc EXCEPT !.pc = "feeds", !.feedIdx = 1]
  /\ UNCHANGED << now, tx, u, before, h, mails, upstream, pg, sideVars >>

\* pool.connect() of pruneOldData rejects: it is awaited before the try block
PruneConnectFails ==
  /\ orc.pc = "prune"
  /\ orc' = [orc EXCEPT !.pc = "catch", !.error = "pool.connect failed"]
  /\ g' = [g EXCEPT !.clean = FALSE]
  /\ UNCHANGED << rows, now, tx, u, before, h, mails, upstream, pg, sideVars >>

\* fetchAllRSSItems(feed.url): every page of the feed, or what was collected
\* before a page failed; it never throws. The feeds of the runs publish fewer
\* items than a page holds, so the only page is page 0
fetchAllRSSItems ==
  /\ orc.pc = "feeds"
  /\ orc.feedIdx <= Len(enabledFeeds)
  /\ \/ /\ orc' = [orc EXCEPT !.pc = "fetched",
                          !.currentItems = upstream[enabledFeeds[orc.feedIdx].name]]
        /\ g' = [g EXCEPT !.paginated = @ \cup {enabledFeeds[orc.feedIdx].name}]
     \/ \* the fetch of the first page fails
        /\ orc' = [orc EXCEPT !.pc = "fetched", !.currentItems = << >>]
        /\ g' = [g EXCEPT !.clean = FALSE,
                          !.paginated = @ \cup {enabledFeeds[orc.feedIdx].name},
                          !.fetchFailed = @ \cup {enabledFeeds[orc.feedIdx].name}]
  /\ UNCHANGED << rows, now, tx, u, before, h, mails, upstream, pg, sideVars >>

\* if (currentItems.length > 0) upsertRSSItems(currentItems, feed.name)
CallReconcile ==
  /\ orc.pc = "fetched"
  /\ Len(orc.currentItems) > 0
  /\ CallUpsert(orc.currentItems, enabledFeeds[orc.feedIdx].name)
  /\ orc' = [orc EXCEPT !.pc = "upsert"]
  /\ UNCHANGED << rows, now, h, mails, upstream, pg, g, sideVars >>

\* an else branch that leaves the loop: no later feed is processed
NoItemsFoundBreaks ==
  /\ orc.pc = "fetched"
  /\ Len(orc.currentItems) = 0
  /\ orc' = [orc EXCEPT !.pc = "feeds", !.feedIdx = Len(enabledFeeds) + 1,
                        !.currentItems = << >>]
  /\ UNCHANGED << rows, now, tx, u, before, h, mails, upstream, pg, g, sideVars >>

\* else: 'No items found for feed', on to the next feed
NoItemsFound ==
  /\ orc.pc = "fetched"
  /\ Len(orc.currentItems) = 0
  /\ orc' = [orc EXCEPT !.pc = "feeds", !.feedIdx = @ + 1, !.currentItems = << >>]
  /\ UNCHANGED << rows, now, tx, u, before, h, mails, upstream, pg, g, sideVars >>

\* upsertRSSItems returned: add its results and the feed's items to the run's aggregates
FeedDone ==
  /\ orc.pc = "upsert"
  /\ u.pc = "returned"
  /\ orc' = [orc EXCEPT !.pc = "feeds", !.feedIdx = @ + 1, !.currentItems = << >>,
                    !.allNewEvents = @ \cup Range(u.newItemTitles),
                    !.allRemovedEvents = @ \cup Range(u.removedItemTitles),
                    !.allCurrentItems =
                       @ \o [k \in 1..Len(orc.currentItems) |->
                               WithFeed(orc.currentItems[k], enabledFeeds[orc.feedIdx].name)]]
  /\ u' = UNone
  /\ tx' = {}
  /\ before' = {}
  /\ UNCHANGED << rows, now, h, mails, upstream, pg, g, sideVars >>

\* a loop without the inner try block: the exception of a feed ends the loop
FeedErrorRethrown ==
  /\ orc.pc = "upsert"
  /\ u.pc = "threw"
  /\ orc' = [orc EXCEPT !.pc = "catch", !.error = "upsertRSSItems failed"]
  /\ g' = [g EXCEPT !.clean = FALSE, !.feedThrew = @ \cup {enabledFeeds[orc.feedIdx].name}]
  /\ u' = UNone
  /\ tx' = {}
  /\ before' = {}
  /\ UNCHANGED << rows, now, h, mails, upstream, pg, sideVars >>

\* upsertRSSItems threw: catch (feedError), logged, on to the next feed
FeedError ==
  /\ orc.pc = "upsert"
  /\ u.pc = "threw"
  /\ orc' = [orc EXCEPT !.pc = "feeds", !.feedIdx = @ + 1, !.currentItems = << >>]
  /\ g' = [g EXCEPT !.clean = FALSE, !.feedThrew = @ \cup {enabledFeeds[orc.feedIdx].name}]
  /\ u' = UNone
  /\ tx' = {}
  /\ before' = {}
  /\ UNCHANGED << rows, now, h, mails, upstream, pg, sideVars >>

\* SELECT * FROM rss_items WHERE is_active = TRUE
getCurrentItemsFromDB ==
  /\ orc.pc = "feeds"
  /\ orc.feedIdx > Len(enabledFeeds)
  /\ orc' = [orc EXCEPT !.pc = "decide", !.dbItems = { x \in rows : x.is_active }]
  /\ UNCHANGED << rows, now, tx, u, before, h, mails, upstream, pg, g, sideVars >>

\* the connection or the query of getCurrentItemsFromDB fails: nothing catches it before run()
GetCurrentItemsFails ==
  /\ orc.pc = "feeds"
  /\ orc.feedIdx > Len(enabledFeeds)
  /\ orc' = [orc EXCEPT !.pc = "catch", !.error = "getCurrentItemsFromDB failed"]
  /\ g' = [g EXCEPT !.clean = FALSE]
  /\ UNCHANGED << rows, now, tx, u, before, h, mails, upstream, pg, sideVars >>

isFirstRun ==
  /\ Cardinality(orc.dbItems) = Len(orc.allCurrentItems)
  /\ Cardinality(orc.allNewEvents) = Len(orc.allCurrentItems)

\* a decision that looks at the new titles only
HasNewOnly == Cardinality(orc.allNewEvents) > 0

HasChanges == Cardinality(orc.allNewEvents) > 0 \/ Cardinality(orc.allRemovedEvents) > 0

\* the notification decision and the send it leads to
Notify ==
  /\ orc.pc = "decide"
  /\ \/ /\ HasChanges
        /\ \E ok \in BOOLEAN :
             /\ sendEmail(formatContent(orc.allCurrentItems, orc.allNewEvents, orc.allRemovedEvents), ok)
             /\ orc' = [orc EXCEPT !.pc = AfterSend(ok),
                               !.error = IF ok THEN @ ELSE "sendMail failed"]
             /\ g' = [g EXCEPT !.clean = @ /\ ok]
     \/ /\ ~HasChanges
        /\ isFirstRun
        /\ \E ok \in BOOLEAN :
             /\ sendEmail(formatContent(orc.allCurrentItems, {}, {}), ok)
             /\ orc' = [orc EXCEPT !.pc = AfterSend(ok),
                               !.error = IF ok THEN @ ELSE "sendMail failed"]
             /\ g' = [g EXCEPT !.clean = @ /\ ok]
     \/ /\ ~HasChanges
        /\ ~isFirstRun
        /\ orc' = [orc EXCEPT !.pc = "finally"]
        /\ UNCHANGED << mails, g >>
  /\ UNCHANGED << rows, now, tx, u, before, h, upstream, pg, sideVars >>

\* catch (error) of run(): sendEmail('', errorDetails), in both environments
SendErrorEmail ==
  /\ orc.pc = "catch"
  /\ \E env \in Envs, ok \in BOOLEAN :
       /\ mails' = Append(mails,
                     [kind |-> "error", delivered |-> ok, content |-> EmptyContent,
                      errorDetails |-> [message |-> orc.error, timestamp |-> now,
                                        environment |-> getEnvironment(env)]])
       \* a rejected send leaves the catch block as the rejection of run()
       /\ orc' = [orc EXCEPT !.pc = "finally", !.rejected = ~ok]
  /\ UNCHANGED << rows, now, tx, u, before, h, upstream, pg, g, sideVars >>

\* the exit status of the process once nothing is pending: process.exitCode,
\* which the program never sets, unless a rejection was left without a handler
ExitCode(rejected, handled) == IF rejected /\ ~handled THEN 1 ELSE 0

\* scraper.run(clearDb).catch(console.error): a rejection of run() is handled by logging it
main(rejected) == ExitCode(rejected, TRUE)

\* finally: await this.pool.end(), which resolves when no client is checked out
\* any more; run() settles and the process ends
Finally ==
  /\ orc.pc = "finally"
  /\ boot # "held"
  /\ orc' = [orc EXCEPT !.pc = "idle", !.exitCode = main(orc.rejected),
                        !.env = NoEnv, !.confirm = Undefined]
  /\ UNCHANGED << rows, now, tx, u, before, h, mails, upstream, pg, g, sideVars >>

run ==
  \/ InitializeDatabase \/ InitializeDatabaseFails \/ pruneOldData \/ PruneConnectFails
  \/ fetchAllRSSItems \/ CallReconcile \/ NoItemsFound \/ FeedDone \/ FeedError
  \/ getCurrentItemsFromDB \/ GetCurrentItemsFails \/ Notify \/ SendErrorEmail \/ Finally

Init ==
  /\ rows = {}
  /\ now = 0
  /\ tx = {}
  /\ u = UNone
  /\ before = {}
  /\ h = HNone
  /\ orc = RNone
  /\ mails = << >>
  /\ upstream = [n \in EnabledNames |-> << >>]
  /\ g = GNone
  /\ pg = PNone
  /\ SideNone

Next == StartRun \/ run \/ upsertRSSItems

Spec == Init /\ [][Next]_vars

\* ------------------------------------------------------------------ reconciler specification
\* upsertRSSItems called directly, pass after pass, with any feed and item list

\* a new pass starts: the clock advances, the reconciler is called
Reconcile ==
  /\ h.pc = "idle"
  /\ u.pc = "none"
  /\ now < MaxTime
  /\ now' = now + 1
  /\ \E feedName \in EnabledNames, items \in ItemLists : CallUpsert(items, feedName)
  /\ h' = [pc |-> "called", again |-> FALSE, prevCommitted |-> FALSE]
  /\ UNCHANGED << rows, orc, mails, upstream, pg, g, sideVars >>

\* the same feed reconciled again, right after its last pass, with the identical item list
ReconcileAgain ==
  /\ h.pc = "called"
  /\ u.pc \in {"returned", "threw"}
  /\ now < MaxTime
  /\ now' = now + 1
  /\ CallUpsert(u.items, u.feedName)
  /\ h' = [pc |-> "called", again |-> TRUE, prevCommitted |-> (u.pc = "returned")]
  /\ UNCHANGED << rows, orc, mails, upstream, pg, g, sideVars >>

\* the caller takes the result (or the exception); the frame is gone
Return ==
  /\ h.pc = "called"
  /\ u.pc \in {"returned", "threw"}
  /\ u' = UNone
  /\ h' = HNone
  /\ tx' = {}
  /\ before' = {}
  /\ UNCHANGED << rows, now, orc, mails, upstream, pg, g, sideVars >>

InitRec ==
  /\ rows = {}
  /\ now = 0
  /\ tx = {}
  /\ u = UNone
  /\ before = {}
  /\ h = HNone
  /\ orc = RNone
  /\ mails = << >>
  /\ upstream = [n \in EnabledNames |-> << >>]
  /\ g = GNone
  /\ pg = PNone
  /\ SideNone

NextRec == Reconcile \/ ReconcileAgain \/ Return \/ upsertRSSItems

SpecRec == InitRec /\ [][NextRec]_vars

\* ------------------------------------------------------------------ stored-table specification
\* two runs, each of them normal or clearing, on a table that earlier runs left
\* behind, some of them under a configuration in which Annette Street was
\* still enabled

\* the day of the last earlier run: two runs before the last value of the clock
Day0 == MaxTime - 2

StoredRow(title, feedName, firstSeen, lastSeen, active) ==
  [title |-> title, feed_name |-> feedName, link |-> "l0", description |-> "d0",
   content_encoded |-> "c0", record_data |-> NoRecord, event_dates |-> << >>,
   first_seen |-> firstSeen, last_seen |-> lastSeen, is_active |-> active]

\* active rows, rows flagged inactive a day ago and rows flagged inactive before
\* that, in an enabled feed and in the disabled one
StoredFull ==
  { StoredRow("Story Time", "Parkdale Branch", Day0 - 1, Day0, TRUE),
    StoredRow("Book Club", "Parkdale Branch", Day0 - 2, Day0, FALSE),
    StoredRow("Chess Night", "Parkdale Branch", Day0 - 2, Day0 - 1, FALSE),
    StoredRow("Story Time", "High Park Branch", Day0, Day0, TRUE),
    StoredRow("Story Time", "Annette Street", Day0 - 2, Day0 - 2, TRUE),
    StoredRow("Book Club", "Annette Street", Day0 - 2, Day0, FALSE),
    StoredRow("Chess Night", "Annette Street", Day0 - 2, Day0 - 1, FALSE) }

\* a title past the retention window that the feed publishes again
StoredExpired ==
  { StoredRow("Story Time", "Parkdale Branch", Day0 - 2, Day0 - 1, FALSE),
    StoredRow("Book Club", "Parkdale Branch", Day0 - 1, Day0, TRUE) }

StoredTables == { {}, StoredFull, StoredExpired }

InitLife ==
  /\ rows \in StoredTables
  /\ now = Day0
  /\ tx = {}
  /\ u = UNone
  /\ before = {}
  /\ h = HNone
  /\ orc = RNone
  /\ mails = << >>
  /\ upstream = [n \in EnabledNames |-> << >>]
  /\ g = GNone
  /\ pg = PNone
  /\ SideNone

NextLife == StartRun \/ StartClearRun \/ ClearDatabase \/ run \/ upsertRSSItems

SpecLife == InitLife /\ [][NextLife]_vars

\* ------------------------------------------------------------------ paginator specification
\* fetchAllRSSItems called on a feed that serves, at every offset, any page or failure
InitPag ==
  /\ rows = {}
  /\ now = 0
  /\ tx = {}
  /\ u = UNone
  /\ before = {}
  /\ h = HNone
  /\ orc = RNone
  /\ mails = << >>
  /\ upstream = [n \in EnabledNames |-> << >>]
  /\ g = GNone
  /\ pg = PNone
  /\ SideNone

NextPag == CallFetchAll \/ paginate

SpecPag == InitPag /\ [][NextPag]_vars

\* every awaited fetch settles
FairSpecPag == SpecPag /\ WF_vars(NextPag)

\* ------------------------------------------------------------------ extractor specification
\* getEventDates applied to every attribute list of up to MaxAttrs attributes
AttrLists == SeqsUpTo(AttrPool, MaxAttrs)

CallGetEventDates(attrs) == [ExNone EXCEPT !.pc = "called", !.attrs = attrs]

\* const eventDates = this.getEventDates(item)
GetEventDates ==
  /\ ex.pc = "called"
  /\ ex' = [ex EXCEPT !.pc = "returned",
                      !.dates = getEventDates([record |-> ex.attrs]),
                      !.raised = Caught(AttrThrows(ex.attrs))]
  /\ UNCHANGED << rows, now, tx, u, before, h, orc, mails, upstream, g, pg, fe, ctor, boot >>

InitDates ==
  /\ rows = {}
  /\ now = 0
  /\ tx = {}
  /\ u = UNone
  /\ before = {}
  /\ h = HNone
  /\ orc = RNone
  /\ mails = << >>
  /\ upstream = [n \in EnabledNames |-> << >>]
  /\ g = GNone
  /\ pg = PNone
  /\ ex \in { CallGetEventDates(attrs) : attrs \in AttrLists }
  /\ fe = FeNone
  /\ ctor = CtorNone
  /\ boot = BootNone

NextDates == GetEventDates

SpecDates == InitDates /\ [][NextDates]_vars

\* ------------------------------------------------------------------ frontend specification
\* lambda-frontend/src/handler.ts: one request served from a table the scraper left
\* most rows of a stored table
MaxRows == 3

RecordC == << Attr("p_event_date", "2025-03-20"), Attr("p_event_date", "2025-03-10") >>

\* a row as upsertRSSItems stored it for an item with this record and body
EventRow(title, feedName, record, description, lastSeen, active) ==
  [title |-> title, feed_name |-> feedName, link |-> "l1", description |-> description,
   content_encoded |-> "c1", record_data |-> record,
   event_dates |-> Timestamps(getEventDates([record |-> record])),
   first_seen |-> 0, last_seen |-> lastSeen, is_active |-> active]

\* rows with one, two and no occurrences, rows that share their earliest
\* occurrence, an inactive row, and bodies with a line break and without text
EventRows ==
  { EventRow("Story Time", "Parkdale Branch", RecordA, "d1", 2, TRUE),
    EventRow("Story Time", "High Park Branch", RecordB, "a\nb", 1, TRUE),
    EventRow("Book Club", "High Park Branch", NoRecord, "d1", 2, TRUE),
    EventRow("Chess Night", "Parkdale Branch", NoRecord, "", 1, TRUE),
    EventRow("Story Time", "Annette Street", RecordB, "d1", 2, TRUE),
    EventRow("Chess Night", "Annette Street", RecordB, "d1", 1, TRUE),
    EventRow("Book Club", "Annette Street", RecordB, "d1", 2, FALSE),
    EventRow("Book Club", "Parkdale Branch", RecordC, "d1", 1, TRUE) }

EventTables == { t \in SUBSET EventRows : Cardinality(t) <= MaxRows }

\* the text values of the table in ascending order of the database collation
Collation ==
  << "Annette Street", "Book Club", "Chess Night", "High Park Branch",
     "Parkdale Branch", "Story Time" >>

Rank(text) == CHOOSE k \in 1..Len(Collation) : Collation[k] = text

\* a timestamp of the clock, which ticks in days, in minutes
MinutesOfDay(t) == t * 1440

\* an ORDER BY on last_seen alone
SortKeyLastSeen(r) == MinutesOfDay(r.last_seen)

\* CASE WHEN event_dates IS NOT NULL AND array_length(event_dates, 1) > 0
\* THEN event_dates[1] ELSE last_seen END
SortKey(r) ==
  IF Len(r.event_dates) > 0 THEN r.event_dates[1] ELSE MinutesOfDay(r.last_seen)

\* ORDER BY <sort key> ASC, feed_name ASC, title ASC
Precedes(a, b) ==
  \/ SortKey(a) < SortKey(b)
  \/ /\ SortKey(a) = SortKey(b)
     /\ \/ Rank(a.feed_name) < Rank(b.feed_name)
        \/ a.feed_name = b.feed_name /\ Rank(a.title) <= Rank(b.title)

RECURSIVE OrderBy(_)
OrderBy(rs) ==
  IF rs = {} THEN << >>
  ELSE LET first == CHOOSE a \in rs : \A b \in rs : Precedes(a, b)
       IN << first >> \o OrderBy(rs \ {first})

\* item.description ? item.description.replace(/\n/g, '<br>') : null
WithBreaks(description) ==
  IF description = "" THEN Undefined
  ELSE IF description = "a\nb" THEN "a<br>b" ELSE description

\* fetchTPLItems(): the active rows in query order, bodies with <br> for line breaks
fetchTPLItems(rs) ==
  LET result == OrderBy({ r \in rs : r.is_active })
  IN [k \in 1..Len(result) |->
        [result[k] EXCEPT !.description = WithBreaks(result[k].description)]]

\* the requests: httpMethod and queryStringParameters
Requests ==
  { [method |-> "GET", format |-> Undefined, view |-> Undefined],
    [method |-> "GET", format |-> "json", view |-> Undefined],
    [method |-> "GET", format |-> Undefined, view |-> "calendar"],
    [method |-> "OPTIONS", format |-> Undefined, view |-> Undefined] }

CallHandler(request) == [pc |-> "called", request |-> request]

\* if (httpMethod === 'OPTIONS') return { statusCode: 200, headers: CORS, body: '' }
Preflight ==
  /\ fe.pc = "called"
  /\ fe.request.method = "OPTIONS"
  /\ fe' = [pc |-> "returned", request |-> fe.request,
            response |-> [statusCode |-> 200, contentType |-> Undefined,
                          body |-> [kind |-> "empty"]]]
  /\ UNCHANGED << rows, now, tx, u, before, h, orc, mails, upstream, g, pg, ex, ctor, boot >>

\* the page: ejs.render(template, { items, groupedItems, calendarMonths, view, ... })
Html(items, view) ==
  [kind |-> "html", items |-> items, view |-> IF view = Undefined THEN "list" ELSE view]

\* every other request: the items are fetched and the page is rendered
RenderPage ==
  /\ fe.pc = "called"
  /\ fe.request.method # "OPTIONS"
  /\ fe' = [pc |-> "returned", request |-> fe.request,
            response |-> [statusCode |-> 200, contentType |-> "text/html",
                          body |-> Html(fetchTPLItems(rows), fe.request.view)]]
  /\ UNCHANGED << rows, now, tx, u, before, h, orc, mails, upstream, g, pg, ex, ctor, boot >>

\* the query (or the pool, or the rendering) raises: the catch answers 500
InternalServerError ==
  /\ fe.pc = "called"
  /\ fe.request.method # "OPTIONS"
  /\ fe' = [pc |-> "returned", request |-> fe.request,
            response |-> [statusCode |-> 500, contentType |-> "application/json",
                          body |-> [kind |-> "json", error |-> "Internal server error"]]]
  /\ UNCHANGED << rows, now, tx, u, before, h, orc, mails, upstream, g, pg, ex, ctor, boot >>

handler == Preflight \/ RenderPage \/ InternalServerError

InitFront ==
  /\ rows \in EventTables
  /\ now = MaxTime
  /\ tx = {}
  /\ u = UNone
  /\ before = {}
  /\ h = HNone
  /\ orc = RNone
  /\ mails = << >>
  /\ upstream = [n \in EnabledNames |-> << >>]
  /\ g = GNone
  /\ pg = PNone
  /\ ex = ExNone
  /\ fe \in { CallHandler(request) : request \in Requests }
  /\ ctor = CtorNone
  /\ boot = BootNone

NextFront == handler

SpecFront == InitFront /\ [][NextFront]_vars

\* ------------------------------------------------------------------ constructor specification
\* new TPLScraper() under every process.env and config.json, then scraper.run()
\* longest feed list of a config.json
MaxFeeds == 2

\* the values of EMAIL_USER, EMAIL_PASS and DATABASE_URL: unset, empty, set
EnvValues == { Undefined, "", "set" }

ProcessEnvs == [EMAIL_USER : EnvValues, EMAIL_PASS : EnvValues, DATABASE_URL : EnvValues]

FeedPool ==
  { [name |-> "Parkdale Branch", enabled |-> TRUE],
    [name |-> "Annette Street", enabled |-> FALSE] }

\* config.json: missing, not JSON, JSON without a feeds array, or JSON with one
ConfigFiles ==
  { [file |-> "missing", hasFeeds |-> FALSE, feeds |-> << >>],
    [file |-> "invalid", hasFeeds |-> FALSE, feeds |-> << >>],
    [file |-> "ok", hasFeeds |-> FALSE, feeds |-> << >>] }
  \cup { [file |-> "ok", hasFeeds |-> TRUE, feeds |-> f] : f \in SeqsUpTo(FeedPool, MaxFeeds) }

\* !process.env.X
Falsy(value) == value \in { Undefined, "" }

NoError == "none"

\* loadConfig(): the message of the error it throws, or none
loadConfig(config) ==
  IF config.file = "missing" THEN "Configuration file not found"
  ELSE IF config.file = "invalid" THEN "Invalid JSON in configuration file"
  ELSE IF ~config.hasFeeds \/ Len(config.feeds) = 0
       THEN "Configuration must contain at least one feed"
  ELSE IF Len(SelectSeq(config.feeds, LAMBDA feed : feed.enabled)) = 0
       THEN "At least one feed must be enabled"
  ELSE NoError

Thrown(message) ==
  [error |-> message, pool |-> FALSE, transporter |-> FALSE, initializeDatabase |-> FALSE]

\* a constructor that looks at DATABASE_URL before the mail credentials
constructorDatabaseFirst(env, config) ==
  IF Falsy(env.DATABASE_URL)
  THEN Thrown("DATABASE_URL environment variable must be set")
  ELSE IF Falsy(env.EMAIL_USER) \/ Falsy(env.EMAIL_PASS)
  THEN Thrown("EMAIL_USER and EMAIL_PASS environment variables must be set")
  ELSE IF loadConfig(config) # NoError THEN Thrown(loadConfig(config))
  ELSE [error |-> NoError, pool |-> TRUE, transporter |-> TRUE, initializeDatabase |-> TRUE]

\* constructor(): the error it throws, or what it created
constructor(env, config) ==
  IF Falsy(env.EMAIL_USER) \/ Falsy(env.EMAIL_PASS)
  THEN Thrown("EMAIL_USER and EMAIL_PASS environment variables must be set")
  ELSE IF Falsy(env.DATABASE_URL)
  THEN Thrown("DATABASE_URL environment variable must be set")
  ELSE IF loadConfig(config) # NoError THEN Thrown(loadConfig(config))
  ELSE [error |-> NoError, pool |-> TRUE, transporter |-> TRUE, initializeDatabase |-> TRUE]

StartProcess(env, config) ==
  [pc |-> "start", env |-> env, config |-> config, made |-> Thrown(NoError), enabledFeeds |-> << >>]

\* const scraper = new TPLScraper(): a throw ends the process
Construct ==
  /\ ctor.pc = "start"
  /\ LET made == constructor(ctor.env, ctor.config) IN
       ctor' = [ctor EXCEPT !.made = made,
                            !.pc = IF made.error = NoError THEN "constructed" ELSE "threw"]
  /\ UNCHANGED << rows, now, tx, u, before, h, orc, mails, upstream, g, pg, ex, fe, boot >>

\* scraper.run(clearDb): const enabledFeeds = this.config.feeds.filter(feed => feed.enabled)
CallRun ==
  /\ ctor.pc = "constructed"
  /\ ctor' = [ctor EXCEPT !.pc = "running",
                          !.enabledFeeds = SelectSeq(ctor.config.feeds, LAMBDA feed : feed.enabled)]
  /\ UNCHANGED << rows, now, tx, u, before, h, orc, mails, upstream, g, pg, ex, fe, boot >>

InitCtor ==
  /\ rows = {}
  /\ now = 0
  /\ tx = {}
  /\ u = UNone
  /\ before = {}
  /\ h = HNone
  /\ orc = RNone
  /\ mails = << >>
  /\ upstream = [n \in EnabledNames |-> << >>]
  /\ g = GNone
  /\ pg = PNone
  /\ ex = ExNone
  /\ fe = FeNone
  /\ ctor \in { StartProcess(env, config) : env \in ProcessEnvs, config \in ConfigFiles }
  /\ boot = BootNone

NextCtor == Construct \/ CallRun

SpecCtor == InitCtor /\ [][NextCtor]_vars

\* ------------------------------------------------------------------ connection specification
\* one process: the constructor has started initializeDatabase() without
\* awaiting it (this.initializeDatabase().catch(console.error)) and run() has
\* been called; the two go on side by side

\* const client = await this.pool.connect() of the constructor's initializeDatabase
BootConnect ==
  /\ boot = "pending"
  /\ orc.pc # "idle"
  /\ boot' = "held"
  /\ UNCHANGED << rows, now, tx, u, before, h, orc, mails, upstream, g, pg, ex, fe, ctor >>

\* its pool.connect() rejects: logged by .catch(console.error)
BootConnectFails ==
  /\ boot = "pending"
  /\ boot' = "done"
  /\ UNCHANGED << rows, now, tx, u, before, h, orc, mails, upstream, g, pg, ex, fe, ctor >>

\* its DDL statements are through, or one of them failed: finally client.release()
BootRelease ==
  /\ boot = "held"
  /\ boot' = "done"
  /\ UNCHANGED << rows, now, tx, u, before, h, orc, mails, upstream, g, pg, ex, fe, ctor >>

bootInitializeDatabase == BootConnect \/ BootConnectFails \/ BootRelease

InitConn ==
  /\ rows \in StoredTables
  /\ now = MaxTime
  /\ tx = {}
  /\ u = UNone
  /\ before = {}
  /\ h = HNone
  /\ orc = [RNone EXCEPT !.pc = "init"]
  /\ mails = << >>
  /\ upstream \in UpstreamStates
  /\ g = [GNone EXCEPT !.emptyStart = (rows = {})]
  /\ pg = PNone
  /\ ex = ExNone
  /\ fe = FeNone
  /\ ctor = CtorNone
  /\ boot = "pending"

NextConn == run \/ upsertRSSItems \/ bootInitializeDatabase

SpecConn == InitConn /\ [][NextConn]_vars

\* ------------------------------------------------------------------ two-feed specification
\* upsertRSSItems as a function of the table, for a pass in which no statement
\* fails; two feeds are reconciled one after the other, in both orders, from
\* the same stored table

RECURSIVE UpsertItems(_, _, _, _)
\* for (const item of items): the table after the upserts of the loop
UpsertItems(rs, items, feedName, t) ==
  IF items = << >> THEN rs
  ELSE LET done == UpsertItems(rs, SubSeq(items, 1, Len(items) - 1), feedName, t)
           item == items[Len(items)]
       IN IF HasTitleAndLink(item) THEN UpsertRow(done, item, feedName, t) ELSE done

\* newItemTitles: the titles pushed by the loop, in feed order
NewItemTitles(rs, items, feedName) ==
  LET pushed == SelectSeq(items, LAMBDA item :
                   HasTitleAndLink(item) /\ item.title \notin ActiveTitles(rs, feedName))
  IN [k \in 1..Len(pushed) |-> pushed[k].title]

\* currentItemTitles
CurrentItemTitles(items) ==
  { items[k].title : k \in { j \in 1..Len(items) : HasTitleAndLink(items[j]) } }

\* upsertRSSItems(items, feedName) committed at time t: the table and the result
Reconciled(rs, items, feedName, t) ==
  LET removed == ActiveTitles(rs, feedName) \ CurrentItemTitles(items)
      upserted == UpsertItems(rs, items, feedName, t)
  IN [rows |-> { IF r.feed_name = feedName /\ r.title \in removed
                 THEN [r EXCEPT !.is_active = FALSE] ELSE r : r \in upserted },
      newItems |-> NewItemTitles(rs, items, feedName),
      removedItems |-> removed]

\* reconcile(first, x) and then reconcile(second, y), a tick later
InOrder(rs, first, x, second, y, t) ==
  LET one == Reconciled(rs, x, first, t + 1)
      two == Reconciled(one.rows, y, second, t + 2)
  IN [rows |-> two.rows, first |-> [newItems |-> one.newItems, removedItems |-> one.removedItems],
      second |-> [newItems |-> two.newItems, removedItems |-> two.removedItems]]

CallBoth(A, x, B, y) ==
  [pc |-> "start", A |-> A, x |-> x, B |-> B, y |-> y,
   ab |-> InOrder({}, A, << >>, B, << >>, 0), ba |-> InOrder({}, B, << >>, A, << >>, 0)]

\* both orders are executed from the stored table
ReconcileBothOrders ==
  /\ h.pc = "start"
  /\ h' = [h EXCEPT !.pc = "done",
                    !.ab = InOrder(rows, h.A, h.x, h.B, h.y, now),
                    !.ba = InOrder(rows, h.B, h.y, h.A, h.x, now)]
  /\ now' = now + 2
  /\ UNCHANGED << rows, tx, u, before, orc, mails, upstream, g, pg, sideVars >>

InitTwo ==
  /\ rows \in StoredTables
  /\ now = Day0
  /\ tx = {}
  /\ u = UNone
  /\ before = {}
  /\ \E A \in EnabledNames, x \in ItemLists, y \in ItemLists :
       \E B \in EnabledNames \ {A} : h = CallBoth(A, x, B, y)
  /\ orc = RNone
  /\ mails = << >>
  /\ upstream = [n \in EnabledNames |-> << >>]
  /\ g = GNone
  /\ pg = PNone
  /\ SideNone

NextTwo == ReconcileBothOrders

SpecTwo == InitTwo /\ [][NextTwo]_vars

\* ------------------------------------------------------------------ overlapping-runs specification
\* two runs of the program at once: each has its own client and transaction
\* on the same table, both reconcile the same feed. The transactions run at
\* the storage's default isolation (read committed): a statement sees what is
\* committed when it starts and what its own transaction wrote, and waits for
\* a row another open transaction wrote

Sessions == {1, 2}

TheOther(s) == CHOOSE o \in Sessions : o # s

\* the conflict target of the upsert: UNIQUE (title, feed_name)
RowKey(r) == << r.title, r.feed_name >>

\* what the statements of session s read: committed rows under its own writes
View(s) == { r \in rows : \A w \in tx[s] : RowKey(w) # RowKey(r) } \cup tx[s]

\* the row is written by the other transaction, which is still open
RowLocked(s, title, feedName) ==
  \E w \in tx[TheOther(s)] : RowKey(w) = << title, feedName >>

\* the writes of session s after a statement that turned its view into view2
Written(s, view2, title, feedName) ==
  { w \in tx[s] : RowKey(w) # << title, feedName >> }
    \cup { r \in view2 : RowKey(r) = << title, feedName >> }

\* the transaction of session s is open
Open(s) == u[s].pc \in {"select", "loop"}

ONone == [pc |-> "running", committed |-> << >>, overlapped |-> FALSE]

\* const client = await this.pool.connect(); BEGIN
SessionBegin(s) ==
  /\ u[s].pc = "connect"
  /\ u' = [u EXCEPT ![s].pc = "select", ![s].client = TRUE]
  /\ h' = [h EXCEPT !.overlapped = @ \/ Open(TheOther(s))]
  /\ UNCHANGED << rows, now, tx, before, orc, mails, upstream, g, pg, sideVars >>

\* the baseline query
SessionSelectActive(s) ==
  /\ u[s].pc = "select"
  /\ u' = [u EXCEPT ![s].currentActiveTitles = ActiveTitles(View(s), u[s].feedName),
                    ![s].pc = "loop", ![s].i = 1]
  /\ UNCHANGED << rows, now, tx, before, callerVars >>

\* one iteration of for (const item of items); the upsert waits for a locked row
SessionProcessItem(s) ==
  /\ u[s].pc = "loop"
  /\ u[s].i <= Len(u[s].items)
  /\ LET item == u[s].items[u[s].i] IN
       \/ /\ ~HasTitleAndLink(item)
          /\ u' = [u EXCEPT ![s].i = @ + 1]
          /\ tx' = tx
       \/ /\ HasTitleAndLink(item)
          /\ ~RowLocked(s, item.title, u[s].feedName)
          /\ u' = [u EXCEPT ![s].i = @ + 1,
                            ![s].currentItemTitles = @ \cup {item.title},
                            ![s].newItemTitles =
                               IF item.title \in u[s].currentActiveTitles
                               THEN @ ELSE Append(@, item.title)]
          /\ tx' = [tx EXCEPT ![s] =
                      Written(s, UpsertRow(View(s), item, u[s].feedName, now),
                              item.title, u[s].feedName)]
  /\ UNCHANGED << rows, now, before, callerVars >>

\* one flagging iteration of the removal loop; the UPDATE waits for a locked row
SessionDeactivateTitle(s) ==
  /\ u[s].pc = "loop"
  /\ u[s].i > Len(u[s].items)
  /\ \E activeTitle \in (u[s].currentActiveTitles \ u[s].currentItemTitles)
                           \ Range(u[s].removedItemTitles) :
       /\ ~RowLocked(s, activeTitle, u[s].feedName)
       /\ u' = [u EXCEPT ![s].removedItemTitles = Append(@, activeTitle)]
       /\ tx' = [tx EXCEPT ![s] =
                   Written(s, MarkInactive(View(s), activeTitle, u[s].feedName),
                           activeTitle, u[s].feedName)]
  /\ UNCHANGED << rows, now, before, callerVars >>

\* COMMIT and return; finally client.release()
SessionCommit(s) ==
  /\ u[s].pc = "loop"
  /\ u[s].i > Len(u[s].items)
  /\ (u[s].currentActiveTitles \ u[s].currentItemTitles) \ Range(u[s].removedItemTitles) = {}
  /\ rows' = Commit(rows, View(s))
  /\ tx' = [tx EXCEPT ![s] = {}]
  /\ u' = [u EXCEPT ![s].pc = "returned", ![s].client = FALSE]
  /\ h' = [h EXCEPT !.committed = Append(@, s)]
  /\ UNCHANGED << now, before, orc, mails, upstream, g, pg, sideVars >>

\* pool.connect() rejects, or a statement fails (a deadlock the storage breaks
\* is one such failure): ROLLBACK, the error is thrown on
SessionFails(s) ==
  /\ u[s].pc \in {"connect", "select", "loop"}
  /\ tx' = [tx EXCEPT ![s] = {}]
  /\ u' = [u EXCEPT ![s].pc = "threw", ![s].client = FALSE]
  /\ UNCHANGED << rows, now, before, callerVars >>

\* the two runs have called upsertRSSItems(x, feedName) and upsertRSSItems(y, feedName)
CalledBoth(x, y, feedName) ==
  [s \in Sessions |-> [UNone EXCEPT !.pc = "connect", !.feedName = feedName,
                                    !.items = IF s = 1 THEN x ELSE y]]

\* the item lists of the two runs: every item has its title and its link
LinkedItemLists == SeqsUpTo({ item \in ItemPool : HasTitleAndLink(item) }, MaxItems)

InitOverlap ==
  /\ rows \in StoredTables
  /\ now = Day0 + 1
  /\ tx = [s \in Sessions |-> {}]
  /\ u \in { CalledBoth(x, y, feedName) :
               x \in LinkedItemLists, y \in LinkedItemLists, feedName \in EnabledNames }
  /\ before = rows
  /\ h = ONone
  /\ orc = RNone
  /\ mails = << >>
  /\ upstream = [n \in EnabledNames |-> << >>]
  /\ g = GNone
  /\ pg = PNone
  /\ SideNone

NextOverlap ==
  \E s \in Sessions :
    \/ SessionBegin(s) \/ SessionSelectActive(s) \/ SessionProcessItem(s)
    \/ SessionDeactivateTitle(s) \/ SessionCommit(s) \/ SessionFails(s)

SpecOverlap == InitOverlap /\ [][NextOverlap]_vars

\* ------------------------------------------------------------------ daily-runs specification
\* the scheduler starts run after run, without end; the clock is held at its
\* last tick, so the rows of all these runs carry the same timestamps

\* the scheduler starts the next run: a new process; the feeds publish what
\* they did at the previous run, or something else
StartNextRun ==
  /\ orc.pc = "idle"
  /\ u.pc = "none"
  /\ now = MaxTime
  /\ orc' = [RNone EXCEPT !.pc = "init"]
  /\ mails' = << >>
  /\ upstream' \in UpstreamStates
  /\ g' = [GNone EXCEPT !.emptyStart = (rows = {})]
  /\ UNCHANGED << rows, now, tx, u, before, h, pg, sideVars >>

InitDaily ==
  /\ rows = {}
  /\ now = MaxTime
  /\ tx = {}
  /\ u = UNone
  /\ before = {}
  /\ h = HNone
  /\ orc = RNone
  /\ mails = << >>
  /\ upstream = [n \in EnabledNames |-> << >>]
  /\ g = GNone
  /\ pg = PNone
  /\ SideNone

NextDaily == StartNextRun \/ run \/ upsertRSSItems

SpecDaily == InitDaily /\ [][NextDaily]_vars

\* the schedule keeps starting runs and every awaited step of a run settles
FairSpecDaily == SpecDaily /\ WF_vars(NextDaily)

\* ------------------------------------------------------------------ paged-feed specification
\* one feed pass over a feed of more than one page: the pagination of
\* fetchAllRSSItems against what the feed publishes, then upsertRSSItems with
\* the items it returned

\* the feed of the pass
PagedFeed == enabledFeeds[1].name

\* what the feed publishes: a full first page of sessions of Story Time, then
\* the items of its last page
PagedContents ==
  { [k \in 1..pageSize |-> RSSItem("Story Time", "l1", "d1")] \o lastPage :
      lastPage \in Published(PagedFeed) }

\* the number of items on the page the feed serves at an offset
ServedCount(content, offset) ==
  IF Len(content) - offset >= pageSize THEN pageSize
  ELSE IF Len(content) > offset THEN Len(content) - offset ELSE 0

\* an iteration whose fetch and parse succeed: the feed serves its page at the offset
FetchFeedPage ==
  /\ FetchPage
  /\ pg'.served[Len(pg'.served)].count = ServedCount(upstream[PagedFeed], pg.pageOffset)

\* return allItems: the items behind the positions that were collected
ItemsFetched ==
  [k \in 1..Len(pg.allItems) |-> upstream[PagedFeed][pg.allItems[k][1] + pg.allItems[k][2]]]

\* if (currentItems.length > 0) upsertRSSItems(currentItems, feed.name)
ReconcileFetched ==
  /\ pg.pc = "returned"
  /\ h.pc = "idle"
  /\ Len(pg.allItems) > 0
  /\ CallUpsert(ItemsFetched, PagedFeed)
  /\ h' = [h EXCEPT !.pc = "called"]
  /\ UNCHANGED << rows, now, orc, mails, upstream, pg, g, sideVars >>

\* the table is what a complete pass over an earlier state of the feed left
InitPaged ==
  /\ rows \in { Reconciled({}, content, PagedFeed, Day0).rows : content \in PagedContents }
  /\ now = Day0 + 1
  /\ tx = {}
  /\ u = UNone
  /\ before = {}
  /\ h = HNone
  /\ orc = RNone
  /\ mails = << >>
  /\ upstream \in { [n \in EnabledNames |-> IF n = PagedFeed THEN content ELSE << >>] :
                      content \in PagedContents }
  /\ g = GNone
  /\ pg = PNone
  /\ SideNone

NextPaged ==
  \/ CallFetchAll \/ FetchFeedPage \/ EmptyRSSContent \/ NoItemsInStructure
  \/ FetchThrows \/ ParseThrows \/ ReconcileFetched \/ upsertRSSItems

SpecPaged == InitPaged /\ [][NextPaged]_vars

\* ------------------------------------------------------------------ claims
\* titles of the items of a list that have both a title and a link
TitlesWithLink(items) ==
  { items[k].title : k \in { j \in 1..Len(items) :
                               items[j].title # Undefined /\ items[j].link # Undefined } }

RowsOf(rs, feedName) == { x \in rs : x.feed_name = feedName }

RowsNotOf(rs, feedName) == { x \in rs : x.feed_name # feedName }

ActiveIn(rs, feedName) == { x.title : x \in { y \in RowsOf(rs, feedName) : y.is_active } }

\* C1: right after a committed reconcile(f, items) the titles of the active rows
\* of feed f are exactly the titles of the items that have a title and a link.
C1_ActiveSetIsPass ==
  u.pc = "returned" => ActiveIn(rows, u.feedName) = TitlesWithLink(u.items)

\* a committed pass in which an item without a link carries a title that was
\* active before, next to an item that is stored
C1_Witness ==
  /\ u.pc = "returned"
  /\ TitlesWithLink(u.items) # {}
  /\ \E k \in 1..Len(u.items) :
       /\ u.items[k].link = Undefined
       /\ u.items[k].title \in ActiveIn(before, u.feedName)
       /\ u.items[k].title \notin ActiveIn(rows, u.feedName)

\* C2: with B the titles active for f before the call and C the titles of the
\* items with title and link, reconcile returns new = C \ B and removed = B \ C,
\* disjoint; a title of both B and C is in neither result, keeps its first_seen
\* and has its last_seen set to the time of the pass.
C2_Partition ==
  u.pc = "returned" =>
    LET B == ActiveIn(before, u.feedName)
        C == TitlesWithLink(u.items)
        new == Range(u.newItemTitles)
        removed == Range(u.removedItemTitles)
    IN  /\ new = C \ B
        /\ removed = B \ C
        /\ new \cap removed = {}
        /\ \A t \in B \cap C :
             /\ t \notin new \cup removed
             /\ \E old \in RowsOf(before, u.feedName), cur \in RowsOf(rows, u.feedName) :
                  /\ old.title = t /\ cur.title = t
                  /\ cur.first_seen = old.first_seen
                  /\ cur.last_seen = now
                  /\ old.last_seen < cur.last_seen

\* the scenario of the specification: Story Time and Book Club stored, the pass
\* returns Story Time and Chess Night
C2_Witness ==
  /\ u.pc = "returned"
  /\ ActiveIn(before, u.feedName) = {"Story Time", "Book Club"}
  /\ TitlesWithLink(u.items) = {"Story Time", "Chess Night"}
  /\ Range(u.newItemTitles) = {"Chess Night"}
  /\ Range(u.removedItemTitles) = {"Book Club"}

\* C3: a second reconcile of the same feed with the identical item list, right
\* after a committed first one, returns no new and no removed title and leaves
\* the first_seen of every row as it was.
C3_Idempotent ==
  (u.pc = "returned" /\ h.again /\ h.prevCommitted) =>
    /\ u.newItemTitles = << >>
    /\ u.removedItemTitles = << >>
    /\ \A old \in before : \E cur \in rows :
         /\ cur.title = old.title /\ cur.feed_name = old.feed_name
         /\ cur.first_seen = old.first_seen

\* a repeated pass that holds a stored title twice and an item that is skipped
C3_Witness ==
  /\ u.pc = "returned" /\ h.again /\ h.prevCommitted
  /\ Len(u.items) > Cardinality(TitlesWithLink(u.items))
  /\ TitlesWithLink(u.items) # {}
  /\ \E x \in rows : x.feed_name = u.feedName /\ x.first_seen < x.last_seen

\* C4: a reconcile of feed A reads no row of another feed into its baseline and
\* changes no row of another feed, in the table or in its transaction, also
\* when both feeds hold the same title.
C4_KeyIsolation ==
  u.pc # "none" =>
    /\ RowsNotOf(rows, u.feedName) = RowsNotOf(before, u.feedName)
    /\ u.pc \in {"select", "loop", "returned"} =>
         RowsNotOf(tx, u.feedName) = RowsNotOf(before, u.feedName)
    /\ u.currentActiveTitles \subseteq ActiveIn(before, u.feedName)

\* a committed pass that classifies as new, and stores, a title another feed
\* holds an active row for
C4_Witness ==
  /\ u.pc = "returned"
  /\ \E x \in RowsNotOf(before, u.feedName) :
       /\ x.is_active
       /\ x.title \in Range(u.newItemTitles)
       /\ x \in rows
       /\ \E y \in RowsOf(rows, u.feedName) : y.title = x.title /\ y.is_active

\* C5: when a statement of reconcile fails after BEGIN, the table is what it was
\* before the call, and the exception reaches the per-feed catch of run(), which
\* goes on with the next feed without touching the table or sending anything.
C5_RollbackAndPropagate ==
  /\ [](u.pc = "threw" => (rows = before /\ orc.pc = "upsert"))
  /\ [][u.pc = "threw" =>
          /\ orc'.pc = "feeds" /\ orc'.feedIdx = orc.feedIdx + 1
          /\ orc'.allNewEvents = orc.allNewEvents
          /\ orc'.allRemovedEvents = orc.allRemovedEvents
          /\ orc'.allCurrentItems = orc.allCurrentItems
          /\ rows' = rows /\ mails' = mails]_vars

\* a pass that fails after it upserted an item and flagged a title inactive
C5_Witness ==
  /\ u.pc = "threw"
  /\ u.removedItemTitles # << >>
  /\ u.newItemTitles # << >>
  /\ tx # before

RunEnded == orc.pc = "idle" /\ now > 0

Labels == {"GitHub Actions", "Fly.io", "Local Development"}

\* a sendEmail call with the change summary of this run and the listing of its items
IsChangeMail(m) ==
  /\ m.kind = "content"
  /\ m.content.listing = orc.allCurrentItems
  /\ { e[2] : e \in m.content.newSection } = orc.allNewEvents
  /\ { e[2] : e \in m.content.removedSection } = orc.allRemovedEvents

EveryItemNew ==
  \A n \in EnabledNames : \A k \in 1..Len(upstream[n]) :
    /\ upstream[n][k].title # Undefined /\ upstream[n][k].link # Undefined
    /\ upstream[n][k].title \in orc.allNewEvents
    /\ \E j \in 1..Len(orc.allCurrentItems) :
         orc.allCurrentItems[j].feedName = n /\ orc.allCurrentItems[j].title = upstream[n][k].title

\* C7 as stated: a run on an empty table in which every item is classified new
\* invokes the notifier exactly once, with the full item list and no change summary.
C7_AsStated ==
  (RunEnded /\ g.emptyStart /\ g.clean /\ EveryItemNew) =>
    /\ Len(mails) = 1
    /\ mails[1].kind = "content"
    /\ mails[1].content.listing = orc.allCurrentItems
    /\ mails[1].content.newSection = {}
    /\ mails[1].content.removedSection = {}

\* C8 as stated: of two consecutive runs over the same feed contents, the first
\* of them on an empty table and no collaborator failing, the first sends a
\* notification and the second sends none.
C8_AsStated ==
  (RunEnded /\ g.hasPrev /\ g.sameAsPrev /\ g.prevEmptyStart /\ g.prevClean /\ g.clean) =>
    /\ g.prevDelivered >= 1
    /\ Len(Delivered(mails)) = 0

IsErrorReport(m) ==
  /\ m.kind = "error"
  /\ m.errorDetails.message = orc.error
  /\ m.errorDetails.timestamp = now
  /\ m.errorDetails.environment \in Labels

\* C10 as stated: a run-level failure produces exactly one error notification
\* with message, timestamp and environment label, and no success notification.
C10_AsStated ==
  (RunEnded /\ orc.error # Undefined) =>
    /\ Len(Delivered(mails)) = 1
    /\ IsErrorReport(Delivered(mails)[1])

\* C10, amended: on a run-level failure the run hands the notifier exactly one
\* error report, with message, timestamp and environment label, as its last
\* call; no success notification is sent; the report is sent unless that send
\* fails too.
C10_OneErrorReport ==
  (RunEnded /\ orc.error # Undefined) =>
    /\ Len(mails) >= 1
    /\ IsErrorReport(mails[Len(mails)])
    /\ \A k \in 1..(Len(mails) - 1) : mails[k].kind = "content" /\ ~mails[k].delivered
    /\ Len(mails) <= 2

\* a run that committed a reconciliation, failed in the final active-row query
\* and sent its error report
C10_Witness ==
  /\ RunEnded
  /\ orc.error = "getCurrentItemsFromDB failed"
  /\ orc.allNewEvents # {}
  /\ Len(mails) = 1 /\ mails[1].delivered /\ mails[1].kind = "error"

\* C11 as stated: a run that ends in a run-level failure ends the process with
\* an exit status other than 0.
C11_AsStated ==
  (RunEnded /\ orc.error # Undefined) => orc.exitCode # 0

\* C12 as stated: a run in which the fetch of a feed page failed sends an error
\* notification.
C12_AsStated ==
  (RunEnded /\ g.fetchFailed # {}) =>
    \E k \in 1..Len(mails) : mails[k].kind = "error" /\ mails[k].delivered

\* the feed the loop of run() is at
CurrentFeed == enabledFeeds[orc.feedIdx].name

ItemsFrom(feedName) ==
  { k \in 1..Len(orc.allCurrentItems) : orc.allCurrentItems[k].feedName = feedName }

\* the loop over the enabled feeds is over
LoopLeft == orc.pc \in {"decide", "catch", "finally", "idle"}

RECURSIVE ItemsOf(_)
ItemsOf(pages) ==
  IF pages = << >> THEN << >>
  ELSE ItemsOf(SubSeq(pages, 1, Len(pages) - 1))
         \o PageItems(pages[Len(pages)].offset, pages[Len(pages)].count)

FullPage(page) == page.outcome = "items" /\ page.count = 10

Counts(pages) == [k \in 1..Len(pages) |-> pages[k].count]

PaginationEnded == pg.pc \in {"returned", "threw"}

\* C14: pagination fetches the offsets 0, 10, 20, ... in this order; it goes on
\* only after pages of 10 items, and a page of fewer than 10 items is the last
\* one fetched and its items are kept; pages of 10, 10 and 7 items give the 27
\* items in page order with exactly 3 fetches.
C14_PagesInOrder ==
  /\ \A k \in 1..Len(pg.fetches) : pg.fetches[k] = 10 * (k - 1)
  /\ pg.pc = "fetch" => \A k \in 1..Len(pg.served) : FullPage(pg.served[k])
  /\ \A k \in 1..(Len(pg.served) - 1) : FullPage(pg.served[k])
  /\ (pg.served # << >> /\ pg.served[Len(pg.served)].outcome = "items") =>
        pg.allItems = ItemsOf(pg.served)
  /\ Counts(pg.served) = << 10, 10, 7 >> =>
        /\ pg.pc = "returned"
        /\ pg.fetches = << 0, 10, 20 >>
        /\ Len(pg.allItems) = 27
        /\ pg.allItems = PageItems(0, 10) \o PageItems(10, 10) \o PageItems(20, 7)

\* the feed of the specification: pages of 10, 10 and 7 items
C14_Witness ==
  /\ pg.pc = "returned"
  /\ Len(pg.served) = 3
  /\ \A k \in 1..3 : pg.served[k].outcome = "items"
  /\ Counts(pg.served) = << 10, 10, 7 >>
  /\ Len(pg.allItems) = 27

\* C15: on a feed whose every page holds 10 items pagination ends; no fetch is
\* issued at an offset above 1000, and the last page fetched is the one at
\* offset 1000.
C15_StopsAtSafetyLimit ==
  /\ [](\A k \in 1..Len(pg.fetches) : pg.fetches[k] <= 1000)
  /\ []((PaginationEnded /\ \A k \in 1..Len(pg.served) : FullPage(pg.served[k])) =>
          /\ pg.fetches # << >>
          /\ pg.fetches[Len(pg.fetches)] = 1000)
  /\ (pg.pc = "fetch" ~> pg.pc = "returned")

\* pagination of a feed of full pages only, ended: 101 pages, 1010 items
C15_Witness ==
  /\ pg.pc = "returned"
  /\ Len(pg.served) = 101
  /\ \A k \in 1..Len(pg.served) : FullPage(pg.served[k])
  /\ Len(pg.allItems) = 1010

Threw(page) == page.outcome \in {"fetch threw", "parse threw"}

\* C16: when the fetch or the parse of page k throws, pagination returns the
\* items of the pages 0..k-1 and nothing else (no item when k = 0), the failed
\* fetch is the last one, and the exception does not reach the caller.
C16_PartialResults ==
  /\ pg.pc # "threw"
  /\ \A k \in 1..(Len(pg.served) - 1) : ~Threw(pg.served[k])
  /\ (pg.served # << >> /\ Threw(pg.served[Len(pg.served)])) =>
        LET k == Len(pg.served) - 1 IN
          /\ pg.pc = "returned"
          /\ pg.allItems = ItemsOf(SubSeq(pg.served, 1, k))
          /\ Len(pg.allItems) = 10 * k
          /\ Len(pg.fetches) = k + 1
          /\ pg.fetches[k + 1] = pg.served[k + 1].offset

\* the third page cannot be parsed: the 20 items of the first two pages are returned
C16_Witness ==
  /\ pg.pc = "returned"
  /\ Len(pg.served) = 3
  /\ pg.served[3].outcome = "parse threw"
  /\ Len(pg.allItems) = 20

SameKey(x, y) == x.title = y.title /\ x.feed_name = y.feed_name

\* the rows of rs that have no row in rs2
Deleted(rs, rs2) == { x \in rs : ~\E y \in rs2 : SameKey(x, y) }

\* inactive and last seen more than the retention period before t
PastRetention(rs, t) == { x \in rs : ~x.is_active /\ x.last_seen + pruneDays < t }

\* a step of the prune step in which the DELETE was executed
PruneDone == orc.pc = "prune" /\ orc'.pc = "feeds" /\ g' = g

\* a step inside the transaction of a reconcile
InTransaction == u.pc \in {"select", "loop"} /\ u'.pc \in {"select", "loop", "returned"}

\* C17 as stated: over any sequence of runs a row is deleted only by the prune
\* step, and then it is inactive and past the retention window.
C17_AsStated ==
  [][Deleted(rows, rows') # {} =>
       /\ orc.pc = "prune"
       /\ Deleted(rows, rows') \subseteq PastRetention(rows, now)]_vars

\* C17, amended: over any sequence of runs started without a clear argument, a
\* row is deleted only by the prune step, and only if it is inactive and its
\* last_seen is older than now minus the retention days; a prune whose DELETE
\* is executed deletes every such row, no active row and no inactive row inside
\* the window, and changes no row it keeps; reconcile never deletes a row, in
\* the table or in its transaction.
C17_OnlyPruneDeletes ==
  /\ [][(~orc.clearDb /\ Deleted(rows, rows') # {}) =>
          /\ orc.pc = "prune"
          /\ Deleted(rows, rows') = PastRetention(rows, now)]_vars
  /\ [][PruneDone =>
          /\ rows' = rows \ PastRetention(rows, now)
          /\ \A x \in rows : (x.is_active \/ x.last_seen >= now - pruneDays) => x \in rows']_vars
  /\ [][u.pc # "none" => Deleted(rows, rows') = {}]_vars
  /\ [][InTransaction => Deleted(tx, tx') = {}]_vars

\* the prune step has deleted the rows past the window, of the enabled feed and
\* of the disabled one, and kept an inactive row that is exactly a retention
\* period old, next to the active rows
C17_Witness ==
  /\ orc.pc = "feeds" /\ orc.feedIdx = 1
  /\ Deleted(StoredFull, rows) =
       { x \in StoredFull : x.title = "Chess Night" }
  /\ \E x \in rows : ~x.is_active /\ x.last_seen = now - pruneDays
  /\ \E x \in rows : x.is_active /\ x.last_seen < now - pruneDays

\* C18 as stated: a run whose prune step fails goes on: every enabled feed is
\* paginated and no error notification is sent.
C18_AsStated ==
  (RunEnded /\ orc.error = "pool.connect failed") =>
    /\ g.paginated = EnabledNames
    /\ \A k \in 1..Len(mails) : mails[k].kind # "error"

SameFirstSeen(rs, rs2) ==
  \A x \in rs, y \in rs2 : SameKey(x, y) => y.first_seen = x.first_seen

\* C19: every row, in the table and in the transaction of a reconcile, has
\* first_seen <= last_seen, and no step changes the first_seen of a row that
\* exists: not the update of a title that reappears, not a reactivation, not a
\* deactivation.
C19_FirstSeenKept ==
  /\ [](\A x \in rows \cup tx : x.first_seen <= x.last_seen)
  /\ [][SameFirstSeen(rows, rows') /\ (InTransaction => SameFirstSeen(tx, tx'))]_vars

\* a committed reconcile that reactivated one row and deactivated another
C19_Witness ==
  /\ u.pc = "returned"
  /\ \E x \in before, y \in rows :
       /\ SameKey(x, y) /\ ~x.is_active /\ y.is_active
       /\ y.first_seen = x.first_seen /\ y.first_seen < y.last_seen /\ y.last_seen = now
  /\ \E x \in before, y \in rows :
       /\ SameKey(x, y) /\ x.is_active /\ ~y.is_active
       /\ y.first_seen = x.first_seen

\* the feeds of the configuration whose enabled flag is false
DisabledNames ==
  { FeedConfigs[k].name : k \in { j \in 1..Len(FeedConfigs) : ~FeedConfigs[j].enabled } }

RowsOfDisabled(rs) == { x \in rs : x.feed_name \in DisabledNames }

\* C20: a run paginates and reconciles no feed whose enabled flag is false, and
\* the rows of a disabled feed are the same before and after every step of a
\* reconcile, in the table and in its transaction.
C20_DisabledUntouched ==
  /\ [](g.paginated \cap DisabledNames = {})
  /\ [](orc.pc \in {"fetched", "upsert"} => CurrentFeed \notin DisabledNames)
  /\ [](u.pc # "none" => u.feedName \notin DisabledNames)
  /\ [](u.pc \in {"select", "loop"} => RowsOfDisabled(tx) = RowsOfDisabled(rows))
  /\ [][orc.pc \in {"feeds", "fetched", "upsert"} =>
          RowsOfDisabled(rows') = RowsOfDisabled(rows)]_vars

\* a run that reconciled both enabled feeds, Story Time among their items,
\* while the disabled feed holds an active and an inactive row, one of them
\* for Story Time
C20_Witness ==
  /\ RunEnded
  /\ ItemsFrom("Parkdale Branch") # {} /\ ItemsFrom("High Park Branch") # {}
  /\ \E k \in 1..Len(orc.allCurrentItems) : orc.allCurrentItems[k].title = "Story Time"
  /\ \E x \in RowsOfDisabled(rows) : x.is_active /\ x.title = "Story Time" /\ x.last_seen < now
  /\ \E x \in RowsOfDisabled(rows) : ~x.is_active

\* ------------------------------------------------------------------ claims C21..C30
\* the p_event_date values of the call that new Date() parses on their own
ParseableDates(attrs) ==
  SelectSeq(TextsOf(attrs, "p_event_date"), LAMBDA dateStr : dateStr \in IsoDates)

Returned == ex.pc = "returned"

\* C25: the occurrence list the extractor returns is non-decreasing by start
\* date-time, whatever the order of the attributes and whatever their end times
C25_SortedByStart ==
  Returned =>
    \A i, j \in 1..Len(ex.dates) : i < j => ex.dates[i].time <= ex.dates[j].time

\* the later date comes first in the record, with end and start times: both returned
C25_Witness ==
  /\ Returned
  /\ Len(ex.dates) = 2
  /\ ex.dates[1].time < ex.dates[2].time
  /\ ex.dates[1].endTime # Undefined
  /\ \E a, b \in 1..Len(ex.attrs) :
       /\ a < b
       /\ ex.attrs[a] = Attr("p_event_date", "2025-03-20")
       /\ ex.attrs[b] = Attr("p_event_date", "2025-03-10")

\* C26: the extractor returns exactly one occurrence per parseable date value,
\* none for the unparseable ones, and never raises
C26_AsStated ==
  Returned =>
    /\ ~ex.raised
    /\ Len(ex.dates) = Len(ParseableDates(ex.attrs))

Answered == fe.pc = "returned" /\ fe.response.statusCode = 200 /\ fe.request.method = "GET"

Key(r) == << r.title, r.feed_name >>

\* rows a and b of the list are in the order (feed_name, title)
ByFeedThenTitle(a, b) ==
  \/ Rank(a.feed_name) < Rank(b.feed_name)
  \/ a.feed_name = b.feed_name /\ Rank(a.title) <= Rank(b.title)

\* the list holds each active row once and no other row
ExactlyActive(items) ==
  /\ { Key(items[k]) : k \in 1..Len(items) } = { Key(r) : r \in { x \in rows : x.is_active } }
  /\ Len(items) = Cardinality({ x \in rows : x.is_active })
  /\ \A k \in 1..Len(items) :
       \E r \in rows : [r EXCEPT !.description = items[k].description] = items[k]

\* C21 as stated: the list is the active rows ordered by earliest occurrence,
\* then feed_name, then title; rows without an occurrence tie on the first key
C21_AsStated ==
  Answered =>
    LET items == fe.response.body.items IN
      /\ ExactlyActive(items)
      /\ \A i, j \in 1..Len(items) :
           (i < j /\ (Len(items[i].event_dates) > 0 <=> Len(items[j].event_dates) > 0)) =>
             IF Len(items[i].event_dates) > 0
             THEN \/ items[i].event_dates[1] < items[j].event_dates[1]
                  \/ /\ items[i].event_dates[1] = items[j].event_dates[1]
                     /\ ByFeedThenTitle(items[i], items[j])
             ELSE ByFeedThenTitle(items[i], items[j])

\* C21 (amended): the list is exactly the active rows, ordered by the earliest
\* occurrence of a row, or its last_seen when it has none, then feed_name, then title
C21_ActiveInQueryOrder ==
  Answered =>
    LET items == fe.response.body.items
        key(r) == IF Len(r.event_dates) > 0 THEN r.event_dates[1] ELSE r.last_seen * 1440
    IN /\ ExactlyActive(items)
       /\ \A i, j \in 1..Len(items) :
            i < j =>
              \/ key(items[i]) < key(items[j])
              \/ key(items[i]) = key(items[j]) /\ ByFeedThenTitle(items[i], items[j])

\* two active rows of one feed that share their earliest occurrence, listed by
\* title, while an inactive row of the table is left out
C21_Witness ==
  /\ Answered
  /\ \E r \in rows : ~r.is_active
  /\ Len(fe.response.body.items) = 2
  /\ fe.response.body.items[1].event_dates = fe.response.body.items[2].event_dates
  /\ fe.response.body.items[1].feed_name = fe.response.body.items[2].feed_name
  /\ fe.response.body.items[1].title # fe.response.body.items[2].title

\* C22: a GET with format=json is answered 200 application/json with items (the
\* active rows), count and lastUpdated; a GET without it 200 text/html (the
\* requests whose query or rendering failed are left aside)
C22_AsStated ==
  (fe.pc = "returned" /\ fe.request.method = "GET" /\ fe.response.statusCode # 500) =>
    /\ fe.response.statusCode = 200
    /\ IF fe.request.format = "json"
       THEN /\ fe.response.contentType = "application/json"
            /\ fe.response.body.kind = "json"
            /\ DOMAIN fe.response.body = {"kind", "items", "count", "lastUpdated"}
            /\ ExactlyActive(fe.response.body.items)
            /\ fe.response.body.count = Len(fe.response.body.items)
       ELSE fe.response.contentType = "text/html"

\* the production environments: GITHUB_ACTIONS = 'true', FLY_APP_NAME set, or
\* NODE_ENV = 'production'
InProduction(env) ==
  env.GITHUB_ACTIONS = "true" \/ env.FLY_APP_NAME # Undefined \/ env.NODE_ENV = "production"

ClearRunGoing == orc.clearDb /\ orc.pc # "idle"

\* C23: a step of a run started with the clear flag deletes rows only at the
\* clear itself, in production only with CONFIRM_CLEAR_DB = 'true'; such a run
\* never prunes, fetches a feed, reconciles or sends a success notification
C23_ClearRunOnlyClears ==
  [][ ClearRunGoing =>
        /\ rows' # rows =>
             /\ orc.pc = "clear"
             /\ InProduction(orc'.env) => orc'.confirm = "true"
        /\ orc'.pc \in {"clear", "catch", "finally", "idle"}
        /\ u' = u /\ tx' = tx /\ pg' = pg
        /\ \A k \in 1..Len(mails') : mails'[k].kind = "error" ]_vars

\* a clear started in production with CONFIRM_CLEAR_DB = 'yes' is over: the
\* rows are all still there
C23_Witness ==
  /\ orc.clearDb
  /\ orc.pc = "finally"
  /\ InProduction(orc.env)
  /\ orc.confirm = "yes"
  /\ rows = StoredFull
  /\ mails = << >>

Unset(value) == value \in { Undefined, "" }

ConfigErrors ==
  { "Configuration file not found", "Invalid JSON in configuration file",
    "Configuration must contain at least one feed", "At least one feed must be enabled" }

NoEnabledFeed(config) ==
  \A k \in 1..Len(config.feeds) : ~config.feeds[k].enabled

\* C24: the constructor throws the mail-credentials error whenever EMAIL_USER or
\* EMAIL_PASS is unset, otherwise the DATABASE_URL error when that is unset,
\* otherwise a configuration error when no feed is enabled; a throw comes before
\* any pool, transporter or database initialization, and no run starts without
\* an enabled feed
C24_ConstructorFailsFirst ==
  ctor.pc \in {"threw", "constructed", "running"} =>
    /\ IF Unset(ctor.env.EMAIL_USER) \/ Unset(ctor.env.EMAIL_PASS)
       THEN ctor.made.error = "EMAIL_USER and EMAIL_PASS environment variables must be set"
       ELSE IF Unset(ctor.env.DATABASE_URL)
       THEN ctor.made.error = "DATABASE_URL environment variable must be set"
       ELSE (ctor.config.file # "ok" \/ NoEnabledFeed(ctor.config))
              => ctor.made.error \in ConfigErrors
    /\ ctor.made.error # NoError =>
         /\ ctor.pc = "threw"
         /\ ~ctor.made.pool /\ ~ctor.made.transporter /\ ~ctor.made.initializeDatabase
    /\ ctor.pc = "running" => Len(ctor.enabledFeeds) > 0

\* the credentials are missing and DATABASE_URL is set: the credentials error
C24_Witness ==
  /\ ctor.pc = "threw"
  /\ ctor.env.EMAIL_PASS = Undefined
  /\ ctor.env.EMAIL_USER = "set"
  /\ ctor.env.DATABASE_URL = Undefined
  /\ ctor.config.file = "ok"
  /\ ctor.made.error = "EMAIL_USER and EMAIL_PASS environment variables must be set"

\* C27 as stated: a run reconciles every enabled feed, also one that yielded zero
\* items: at the end of a run in which no collaborator failed (nor in the run
\* before it) a feed that published nothing has no active row left
C27_AsStated ==
  (RunEnded /\ g.clean /\ (g.hasPrev => g.prevClean) /\ ~orc.clearDb) =>
    \A n \in EnabledNames : upstream[n] = << >> => ActiveIn(rows, n) = {}

\* C28: a reconcile transaction is open only for the feed the loop is at, after
\* the prune step has completed; the loop goes through the enabled feeds one by
\* one in configuration order; the notification decision is made, and the
\* success notification sent, only after the last enabled feed
C28_OneFeedAtATime ==
  [][ /\ u'.pc # "none" =>
           /\ orc'.pc = "upsert"
           /\ orc'.feedIdx \in 1..Len(enabledFeeds)
           /\ u'.feedName = enabledFeeds[orc'.feedIdx].name
      /\ (orc.feedIdx = 0 /\ orc'.feedIdx # 0) =>
           orc.pc = "prune" /\ orc'.feedIdx = 1 /\ u.pc = "none"
      /\ (orc.feedIdx # 0 /\ orc'.feedIdx # orc.feedIdx) =>
           \/ orc'.feedIdx = orc.feedIdx + 1 /\ u'.pc = "none"
           \/ orc'.feedIdx = 0 /\ orc.pc = "idle"
      /\ orc'.pc = "decide" => orc'.feedIdx = Len(enabledFeeds) + 1 /\ u'.pc = "none"
      /\ (Len(mails') > Len(mails) /\ mails'[Len(mails')].kind = "content") =>
           orc.pc = "decide" ]_vars

\* the decision is reached after both feeds were reconciled, the first of them
\* with a deactivation
C28_Witness ==
  /\ orc.pc = "decide"
  /\ \A n \in EnabledNames : ItemsFrom(n) # {}
  /\ orc.allRemovedEvents # {}
  /\ orc.allNewEvents # {}

\* the last item of the list that has this title and a link
LastWithTitle(items, title) ==
  items[CHOOSE k \in 1..Len(items) :
          /\ items[k].title = title /\ items[k].link # Undefined
          /\ \A j \in (k + 1)..Len(items) :
               ~(items[j].title = title /\ items[j].link # Undefined)]

\* row y holds the data of the item
HoldsDataOf(y, item) ==
  /\ y.link = item.link
  /\ y.description = item.description
  /\ y.content_encoded = item.content
  /\ y.record_data = item.record
  /\ y.event_dates = Timestamps(getEventDates(item))

\* the rows that were inactive when the reconcile began and whose title the pass lists
Reactivated ==
  { x \in before : /\ ~x.is_active
                   /\ x.feed_name = u.feedName
                   /\ x.title \in TitlesWithLink(u.items) }

\* C29: after a committed reconcile(f, items), a title whose row was inactive and
\* that the pass lists with a link is reported new, and its row is the same row:
\* active, last_seen refreshed, the item's data, first_seen as before, no second row
C29_ReactivatedInPlace ==
  u.pc = "returned" =>
    \A x \in Reactivated :
      /\ x.title \in Range(u.newItemTitles)
      /\ Cardinality({ y \in rows : SameKey(x, y) }) = 1
      /\ \A y \in rows :
           SameKey(x, y) =>
             /\ y.is_active
             /\ y.last_seen = now
             /\ y.first_seen = x.first_seen
             /\ HoldsDataOf(y, LastWithTitle(u.items, x.title))
      /\ Cardinality(rows) = Cardinality(before) + Cardinality(TitlesWithLink(u.items)
                               \ { r.title : r \in RowsOf(before, u.feedName) })

\* Book Club, inactive for a day with the old link, is published again
C29_Witness ==
  /\ u.pc = "returned"
  /\ \E x \in Reactivated :
       /\ x.title = "Book Club"
       /\ x.link = "l0"
       /\ x.first_seen < x.last_seen
       /\ x.last_seen < now
       /\ \E y \in rows : SameKey(x, y) /\ y.is_active /\ y.link = "l1"

\* C30: after a committed pass every title of the pass has exactly one row for
\* the feed, and the row holds the link, description, content, metadata and
\* occurrences of the last item of the pass that has this title and a link
C30_LaterItemWins ==
  u.pc = "returned" =>
    \A title \in TitlesWithLink(u.items) :
      /\ Cardinality({ y \in rows : y.title = title /\ y.feed_name = u.feedName }) = 1
      /\ \A y \in rows :
           (y.title = title /\ y.feed_name = u.feedName) =>
             HoldsDataOf(y, LastWithTitle(u.items, title))

\* Story Time twice in one pass, with different links, bodies and records: the
\* row has those of the second item
C30_Witness ==
  /\ u.pc = "returned"
  /\ Len(u.items) = 2
  /\ u.items[1].title = "Story Time" /\ u.items[1].link = "l1"
  /\ u.items[2].title = "Story Time" /\ u.items[2].link = "l2"
  /\ u.items[1].record # u.items[2].record
  /\ \E y \in rows : y.title = "Story Time" /\ y.link = "l2" /\ y.content_encoded = "c2"
                    /\ y.event_dates # << >>

\* ------------------------------------------------------------------ claims C31..C40
\* the titles of the items of the pass that lack a title or a link, and that no
\* item of the pass carries together with a link
SkippedTitles ==
  { u.items[k].title : k \in { j \in 1..Len(u.items) : ~(u.items[j].title # Undefined
                                                         /\ u.items[j].link # Undefined) } }
    \ TitlesWithLink(u.items)

\* the rows of the feed of the pass that have this title
RowsTitled(rs, title) == { x \in RowsOf(rs, u.feedName) : x.title = title }

\* C31 as stated: an item lacking a title or a link creates or updates no row and
\* appears in neither the new nor the removed result
C31_AsStated ==
  u.pc = "returned" =>
    \A title \in SkippedTitles :
      /\ RowsTitled(rows, title) = RowsTitled(before, title)
      /\ title \notin Range(u.newItemTitles)
      /\ title \notin Range(u.removedItemTitles)

\* C31 (amended): an item lacking a title or a link is never upserted and never
\* reported new; it counts as absent from the pass, so a row of its title is
\* left as it was, except that an active one is flagged inactive and reported
\* removed; the other items of the pass are processed and committed
C31_SkippedCountsAsAbsent ==
  u.pc = "returned" =>
    /\ \A title \in SkippedTitles :
         /\ title \notin Range(u.newItemTitles)
         /\ RowsTitled(rows, title) =
              { [x EXCEPT !.is_active = FALSE] : x \in RowsTitled(before, title) }
         /\ title \in Range(u.removedItemTitles) <=>
              \E x \in RowsTitled(before, title) : x.is_active
    /\ \A title \in TitlesWithLink(u.items) :
         \E y \in RowsTitled(rows, title) : y.is_active /\ y.last_seen = now

\* an item without a title comes first and an item without a link second; the
\* title of the second was active and is removed, and a row without title never existed
C31_Witness ==
  /\ u.pc = "returned"
  /\ Len(u.items) = 2
  /\ u.items[1].title = Undefined
  /\ u.items[2].link = Undefined
  /\ u.items[2].title \in ActiveIn(before, u.feedName)
  /\ u.items[2].title \in Range(u.removedItemTitles)
  /\ RowsTitled(rows, Undefined) = {}

\* the value at index i of the list when one exists (an element with text),
\* otherwise the first value of the list
AtIndexElseFirst(list, i) ==
  IF i <= Len(list) /\ list[i] # Undefined /\ list[i] # "" THEN list[i] ELSE list[1]

\* the occurrence the date value at index i stands for
OccurrenceAt(i) ==
  LET dateValues == TextsOf(ex.attrs, "p_event_date")
      startTimes == TextsOf(ex.attrs, "p_event_time")
      endTimes == TextsOf(ex.attrs, "p_event_endtime")
  IN [time |-> IF Len(startTimes) > 0
               THEN NewDate(DateTime(dateValues[i], AtIndexElseFirst(startTimes, i)))
               ELSE NewDate(DateOnly(dateValues[i])),
      endTime |-> IF Len(endTimes) > 0 THEN AtIndexElseFirst(endTimes, i) ELSE Undefined]

DateIndexes == 1..Len(TextsOf(ex.attrs, "p_event_date"))

\* C32: every occurrence returned is the one of a date value: its start is the
\* date combined with the start time at the same index, else with the first
\* start time, else the date alone; its end time is the one at the same index,
\* else the first; when every attribute has a name, each date value whose
\* combination parses has its occurrence in the list
C32_StartAndEndByIndex ==
  Returned =>
    /\ \A k \in 1..Len(ex.dates) :
         Cardinality({ j \in 1..Len(ex.dates) : ex.dates[j] = ex.dates[k] })
           <= Cardinality({ i \in DateIndexes : OccurrenceAt(i) = ex.dates[k] })
    /\ (\A k \in 1..Len(ex.attrs) : ex.attrs[k].dollar) =>
         \A i \in DateIndexes :
           OccurrenceAt(i).time # NaN =>
             Cardinality({ j \in 1..Len(ex.dates) : ex.dates[j] = OccurrenceAt(i) })
               = Cardinality({ n \in DateIndexes : OccurrenceAt(n) = OccurrenceAt(i) })

\* two dates and two start times: the second date starts at the second time
C32_Witness ==
  /\ Returned
  /\ ex.attrs = << Attr("p_event_date", "2025-03-10"), Attr("p_event_time", "14:00"),
                   Attr("p_event_date", "2025-03-20"), Attr("p_event_time", "09:00") >>
  /\ Len(ex.dates) = 2
  /\ ex.dates[1].time = DayOf("2025-03-10") * 1440 + MinutesOf("14:00")
  /\ ex.dates[2].time = DayOf("2025-03-20") * 1440 + MinutesOf("09:00")
  /\ ex.dates[2].endTime = Undefined

\* a client of the pool is checked out
ConnectionHeld == u.client \/ boot = "held"

\* C33 as stated: a unit of storage work that is over has released its client,
\* no client is checked out while a feed is being fetched, and none when the
\* run has ended
C33_AsStated ==
  [][ /\ u'.pc \in {"none", "returned", "threw"} => ~u'.client
      /\ (orc.pc = "feeds" /\ orc'.pc = "fetched") => ~ConnectionHeld
      /\ orc'.pc = "idle" => ~ConnectionHeld' ]_vars

\* the rows without their timestamps
Untimed(rs) ==
  { [title |-> r.title, feed_name |-> r.feed_name, link |-> r.link,
     description |-> r.description, content_encoded |-> r.content_encoded,
     record_data |-> r.record_data, event_dates |-> r.event_dates,
     is_active |-> r.is_active] : r \in rs }

\* the committed reconcile agrees with the function of the table
StepsAgreeWithReconciled ==
  u.pc = "returned" =>
    LET pass == Reconciled(before, u.items, u.feedName, now)
    IN /\ rows = pass.rows
       /\ u.newItemTitles = pass.newItems
       /\ Range(u.removedItemTitles) = pass.removedItems

\* C34: reconcile(A, x) then reconcile(B, y) and reconcile(B, y) then
\* reconcile(A, x), for two different feeds, end with the same rows up to
\* timestamps and return the same new and removed titles for each feed
C34_FeedsCommute ==
  h.pc = "done" =>
    /\ Untimed(h.ab.rows) = Untimed(h.ba.rows)
    /\ h.ab.first = h.ba.second
    /\ h.ab.second = h.ba.first

\* both feeds list Story Time; the first one loses its active row of another
\* title, the second one gets a new row
C34_Witness ==
  /\ h.pc = "done"
  /\ rows = StoredExpired
  /\ \E j \in 1..Len(h.x), k \in 1..Len(h.y) :
       /\ h.x[j].title = "Story Time" /\ h.x[j].link = "l2"
       /\ h.y[k].title = "Story Time" /\ h.y[k].link = "l1"
  /\ h.ab.first.removedItems # {}
  /\ h.ab.first.newItems # << >>
  /\ h.ab.second.newItems # << >>
  /\ h.ab.rows # h.ba.rows

\* both transactions have committed
BothCommitted == Len(h.committed) = 2

\* the transaction that committed last
LastCommitter == u[h.committed[2]]

\* C35: nothing in upsertRSSItems keeps two transactions for the same feed
\* apart. When they do not overlap, the feed's active titles after both
\* commits are the item titles of the one that committed last; when they
\* overlap, the titles of the last committer are still all active, but the
\* active titles need not be those titles
C35_ActiveSetNeedsNoOverlap ==
  BothCommitted =>
    /\ TitlesWithLink(LastCommitter.items) \subseteq ActiveTitles(rows, LastCommitter.feedName)
    /\ ~h.overlapped =>
         ActiveTitles(rows, LastCommitter.feedName) = TitlesWithLink(LastCommitter.items)

\* two overlapping transactions on an empty table, one with Story Time, one
\* with Book Club: both titles are active after both commits
C35_Witness ==
  /\ BothCommitted
  /\ h.overlapped
  /\ before = {}
  /\ ActiveTitles(rows, LastCommitter.feedName) # TitlesWithLink(LastCommitter.items)
  /\ TitlesWithLink(u[h.committed[1]].items) \ TitlesWithLink(LastCommitter.items)
       \subseteq ActiveTitles(rows, LastCommitter.feedName)

\* the change notifications of the run that were sent
ChangeMails == { k \in 1..Len(mails) : IsChangeMail(mails[k]) /\ mails[k].delivered }

\* the feed's row of the title, as this run's reconcile of the feed left it
FeedRows(branch, title, active) ==
  { r \in rows : r.feed_name = branch /\ r.title = title /\ r.is_active = active }

\* C36: in the change summary each new title stands under a feed whose pass
\* classified it new (that feed's row of the title is active) and each removed
\* title under a feed whose pass removed it (that feed's row is inactive)
C36_AsStated ==
  \A k \in ChangeMails :
    /\ \A e \in mails[k].content.newSection : FeedRows(e[1], e[2], TRUE) # {}
    /\ \A e \in mails[k].content.removedSection : FeedRows(e[1], e[2], FALSE) # {}

\* C37: a row that is inactive after a step is the row it was before the step
\* in everything but is_active: flagging changes no link, description,
\* content, metadata, occurrence list, first_seen or last_seen, and an inactive
\* row is left as it is. The prune deletes the inactive rows whose last_seen,
\* the time of the last pass that saw the title, is more than pruneDays back
C37_FlagOnly ==
  [][ /\ \A r \in rows, r2 \in rows' :
           SameKey(r, r2) /\ ~r2.is_active => r2 = [r EXCEPT !.is_active = FALSE]
      /\ orc.pc = "prune" /\ rows' # rows =>
           rows \ rows' = { r \in rows : ~r.is_active /\ r.last_seen + pruneDays < now } ]_vars

\* a pass has committed that flagged a row last seen in an earlier pass; the
\* row still carries that pass's time and data
C37_Witness ==
  /\ u.pc = "returned"
  /\ \E r \in rows, b \in before :
       /\ SameKey(r, b)
       /\ b.is_active /\ ~r.is_active
       /\ r.title \in Range(u.removedItemTitles)
       /\ r.feed_name = u.feedName
       /\ r.last_seen < now
       /\ r.link = "l0"

\* every enabled feed of the run was fetched and yielded no item
EveryFeedEmpty ==
  /\ orc.feedIdx > Len(enabledFeeds)
  /\ Len(orc.allCurrentItems) = 0
  /\ g.feedThrew = {}

\* C38 as stated: a run in which every enabled feed yields zero items sends no
\* notification, whatever rows are stored.
C38_AsStated ==
  (RunEnded /\ EveryFeedEmpty) =>
    \A k \in 1..Len(mails) : mails[k].kind = "content" => ~mails[k].delivered

\* the titles the feeds publish
PublishedTitles == { item.title : item \in PagePool } \ {Undefined}

\* the reconcile of the current feed has committed and returned the title as
\* new or as removed
Classified(title) ==
  /\ orc.pc = "upsert"
  /\ u.pc = "returned"
  /\ title \in Range(u.newItemTitles) \cup Range(u.removedItemTitles)

\* a change notification of the run that names the title was sent
Announced(title) ==
  \E k \in 1..Len(mails) :
    /\ mails[k].kind = "content"
    /\ mails[k].delivered
    /\ title \in { e[2] : e \in mails[k].content.newSection \cup mails[k].content.removedSection }

\* C39 as stated: every title that a committed reconcile classifies as new or
\* removed is later named by a change notification that is sent, in that run
\* or in a later one; here for the behaviours in which runs without any
\* collaborator failure keep occurring.
C39_AsStated ==
  ([]<>(RunEnded /\ g.clean)) => (\A title \in PublishedTitles : Classified(title) ~> Announced(title))

\* every page request of the pass was answered with the page, or threw in the fetch
PagesServedOrThrown ==
  \A k \in 1..Len(pg.served) : pg.served[k].outcome \in {"items", "fetch threw"}

\* C40 as stated: a title is flagged inactive and returned as removed for a
\* feed only if no item with that title and a link is on any page of the feed
\* at the time of the run.
C40_AsStated ==
  (u.pc = "returned" /\ PagesServedOrThrown) =>
    \A title \in Range(u.removedItemTitles) :
      /\ FeedRows(u.feedName, title, FALSE) # {}
      /\ title \notin TitlesWithLink(upstream[u.feedName])

====
